---- MODULE Spec2Model ----
(***************************************************************************)
(* Volume repository, container volume lifecycle and container removal of  *)
(* the docker-plugins daemon.                                              *)
(*                                                                         *)
(* A path is the sequence of its components: "/a/." is <<"/","a",".">>,    *)
(* the empty string is <<>>.  A Volume object lives in `vol` under its ID  *)
(* (the pointer identity of *Volume); the repository map `volumes` maps a  *)
(* path to the ID of the object stored under it.                           *)
(*                                                                         *)
(* Spec           volumes.Repository under two request threads, with the   *)
(*                plugin repository and daemon restarts.                   *)
(* SpecContainers the daemon's container handlers on top of the repository.*)
(* SpecRefs       the containers' AddContainer / RemoveContainer calls.    *)
(* SpecPlugins    plugin activation under two threads: Get and Load of     *)
(*                plugins.go (activePlugins), Get(name, imp) of the        *)
(*                storage variant and volumedrivers.Lookup, with the       *)
(*                mutexes activePlugins, storage and drivers.              *)
(* SpecDrivers    the volume driver extension point: Register, Unregister  *)
(*                and Lookup on the drivers map.                           *)
(* SpecMounts     mount point resolution at container start:               *)
(*                Daemon.registerMountPoints (gen "M") and                 *)
(*                Container.createVolumes (gen "V").                       *)
(* SpecSort       the order of the mounts handed to the runtime:           *)
(*                sortMounts and sortedVolumeMounts.                       *)
(* SpecCreate     the volumes of Daemon.Create: the mount points of the    *)
(*                hostConfig, then the loop over config.Volumes.           *)
(* SpecLifecycle  the requests a plugin volume driver receives while a     *)
(*                container is created, started, stopped and removed.      *)
(*                                                                         *)
(* A manifest pointer is a record [nil, Implements]: Client.Call decodes   *)
(* into the pointer it is handed only when that pointer is not nil, and a  *)
(* read through a nil pointer is the outcome "panic", which unwinds the    *)
(* call and runs its deferred Unlocks.                                     *)
(*                                                                         *)
(* The Volume type's methods are not part of the sources; they are         *)
(* modelled from the fields the repository initialises (containers is a    *)
(* map[string]struct{}) and from the specification.  The repository's      *)
(* pluginRepository is taken to be the plugin repository handed to         *)
(* NewRepository.                                                          *)
(***************************************************************************)
EXTENDS Naturals, Integers, Sequences, FiniteSets, TLC

\* ------------------------------------------------------------------ bounds
\* Number of ids common.GenerateRandomID hands out in one run.
MaxVolumes == 2
\* Number of "volume" plugins that register in one run.
MaxPlugins == 1
\* Number of AddContainer calls, and of RemoveContainer calls, a container makes.
MaxCalls == 2

Threads == {"t1", "t2"}
ContainerIDs == {"c1", "c2"}
NoThread == "none"

\* ------------------------------------------------------------------- paths
Root == <<"/">>
EmptyPath == <<>>
PathA == <<"/", "a">>
PathL == <<"/", "l">>
PathLDot == <<"/", "l", ".">>
PathB == <<"/", "b">>
VfsRoot == <<"/", "vfs">>

\* /l is a symbolic link to /a.
Symlinks == (PathL :> PathA)

IsAbs(p) == Len(p) > 0 /\ p[1] = "/"

RECURSIVE CleanParts(_, _, _)
CleanParts(parts, acc, rooted) ==
    IF parts = <<>> THEN acc
    ELSE LET c == Head(parts)
             rest == Tail(parts)
         IN  IF c = "" \/ c = "." THEN CleanParts(rest, acc, rooted)
             ELSE IF c = ".."
                  THEN IF acc # <<>> /\ acc[Len(acc)] # ".."
                       THEN CleanParts(rest, SubSeq(acc, 1, Len(acc) - 1), rooted)
                       ELSE IF rooted THEN CleanParts(rest, acc, rooted)
                            ELSE CleanParts(rest, Append(acc, ".."), rooted)
                  ELSE CleanParts(rest, Append(acc, c), rooted)

\* filepath.Clean
Clean(p) ==
    IF IsAbs(p) THEN Root \o CleanParts(Tail(p), <<>>, TRUE)
    ELSE LET q == CleanParts(p, <<>>, FALSE) IN IF q = <<>> THEN <<".">> ELSE q

Parent(p) == IF Len(p) > 1 THEN SubSeq(p, 1, Len(p) - 1) ELSE p

RECURSIVE WalkSymlinks(_, _, _)
WalkSymlinks(parts, cur, dirs) ==
    IF parts = <<>> THEN [ok |-> TRUE, path |-> cur]
    ELSE LET c == Head(parts)
             rest == Tail(parts)
         IN  IF c = "" \/ c = "." THEN WalkSymlinks(rest, cur, dirs)
             ELSE IF c = ".." THEN WalkSymlinks(rest, Parent(cur), dirs)
             ELSE LET nxt == Append(cur, c)
                  IN  IF nxt \in DOMAIN Symlinks
                      THEN WalkSymlinks(Tail(Symlinks[nxt]) \o rest, Root, dirs)
                      ELSE IF nxt \in dirs
                           THEN WalkSymlinks(rest, nxt, dirs)
                           ELSE [ok |-> FALSE, path |-> nxt]

\* filepath.EvalSymlinks: the path with every link resolved, or an error when a
\* component does not exist.  The empty path and "." resolve to themselves.
EvalSymlinks(p, dirs) ==
    IF p = EmptyPath \/ p = <<".">> THEN [ok |-> TRUE, path |-> p]
    ELSE IF IsAbs(p) THEN WalkSymlinks(Tail(p), Root, dirs)
    ELSE [ok |-> FALSE, path |-> p]

RECURSIVE Prefixes(_)
Prefixes(p) == IF Len(p) <= 1 THEN {} ELSE {p} \cup Prefixes(Parent(p))

\* os.MkdirAll
MkdirAll(p, dirs) == dirs \cup Prefixes(p)

\* ------------------------------------------------------------- repository
NoVolume == "nil"
NoError == ""

\* common.GenerateRandomID: the n-th id drawn.
GenerateRandomID(n) == "v" \o ToString(n)

\* graphdriver.Driver.Get of the vfs driver: the directory of layer `id`.
DriverGet(id) == Append(VfsRoot, id)

\* Volume.ToDisk / Volume.FromDisk: config.json holds the serialised fields; the
\* set of referencing containers is not written.
ToDisk(v) ==
    [ID |-> v.ID, Path |-> v.Path, IsBindMount |-> v.IsBindMount, Writable |-> v.Writable]

FromDisk(v, json) ==
    [v EXCEPT !.Path = json.Path, !.IsBindMount = json.IsBindMount,
              !.Writable = json.Writable]

\* Volume.AddContainer / RemoveContainer / Containers on the object `id`.
AddContainer(W, id, c) ==
    [W EXCEPT !.vol[id].containers = @ \cup {c}]

RemoveContainer(W, id, c) ==
    [W EXCEPT !.vol[id].containers = @ \ {c}]

Containers(W, id) == W.vol[id].containers

\* A get that looks the path up without resolving its symbolic links.
get_Unresolved(W, path) ==
    IF Clean(path) \in DOMAIN W.volumes THEN W.volumes[Clean(path)] ELSE NoVolume

\* Repository.get
get(W, path) ==
    LET e == EvalSymlinks(path, W.dirs)
    IN  IF ~e.ok THEN NoVolume
        ELSE IF Clean(e.path) \in DOMAIN W.volumes THEN W.volumes[Clean(e.path)]
        ELSE NoVolume

\* Repository.Get
Get(W, path) == get(W, path)

\* Repository.add
add(W, id) ==
    IF get(W, W.vol[id].Path) # NoVolume THEN W
    ELSE [W EXCEPT !.volumes = (W.vol[id].Path :> id) @@ @]

\* Volume.initialize: create the volume path if it is missing, create the
\* metadata directory and write config.json.
initialize(W, id) ==
    [W EXCEPT !.dirs = MkdirAll(W.vol[id].Path, @),
              !.meta = (id :> ToDisk(W.vol[id])) @@ @]

\* Repository.createNewVolumePath; `outcome` is what the graph driver answers.
createNewVolumePath(W, id, outcome) ==
    IF outcome = "createErr" THEN [W |-> W, err |-> "DriverError", path |-> EmptyPath]
    ELSE LET W1 == [W EXCEPT !.drvCreated = @ \cup {id},
                             !.dirs = MkdirAll(DriverGet(id), @)]
         IN  IF outcome = "getErr"
             THEN [W |-> W1, err |-> "DriverError", path |-> EmptyPath]
             ELSE [W |-> W1, err |-> NoError, path |-> DriverGet(id)]

\* The Volume literal of newVolume.
NewVolumeObject(id, path, writable, isBindMount) ==
    [ID |-> id, Path |-> path, Writable |-> writable, containers |-> {},
     IsBindMount |-> isBindMount]

\* Repository.newVolume; env.create and env.init are the outcomes of the graph
\* driver and of Volume.initialize.
newVolume(W, path0, writable, env) ==
    LET id == GenerateRandomID(W.nextID)
        W0 == [W EXCEPT !.nextID = @ + 1]
        isBindMount == path0 # EmptyPath
        cr == IF path0 = EmptyPath THEN createNewVolumePath(W0, id, env.create)
              ELSE [W |-> W0, err |-> NoError, path |-> path0]
        cleaned == Clean(cr.path)
        e == EvalSymlinks(cleaned, cr.W.dirs)
        path == IF e.ok THEN e.path ELSE cleaned
        v == NewVolumeObject(id, path, writable, isBindMount)
        W1 == [cr.W EXCEPT !.vol = (id :> v) @@ @]
    IN  IF cr.err # NoError THEN [W |-> cr.W, err |-> cr.err, id |-> NoVolume]
        ELSE IF ~env.init THEN [W |-> cr.W, err |-> "InitError", id |-> NoVolume]
        ELSE [W |-> add(initialize(W1, id), id), err |-> NoError, id |-> id]

\* The loop of FindOrCreateVolume over the "volume" plugins: resps[i] is the
\* answer of the i-th plugin.  The result is the path after the plugins, or an
\* error.
RECURSIVE PluginPath(_, _, _)
PluginPath(path, resps, i) ==
    IF i > Len(resps) THEN [err |-> NoError, path |-> path]
    ELSE IF resps[i].err THEN [err |-> "PluginError", path |-> path]
    ELSE PluginPath(IF resps[i].ModifiedHostPath # EmptyPath
                    THEN resps[i].ModifiedHostPath ELSE path, resps, i + 1)

\* A FindOrCreateVolume that makes a volume without looking the path up.
FindOrCreateVolume_NoLookup(W, path0, containerId, writable, env) ==
    LET pp == PluginPath(path0, env.resps, 1)
    IN  IF pp.err # NoError THEN [W |-> W, err |-> pp.err, id |-> NoVolume]
        ELSE newVolume(W, pp.path, writable, env)

\* Repository.FindOrCreateVolume, between Lock and Unlock.
FindOrCreateVolume(W, path0, containerId, writable, env) ==
    LET pp == PluginPath(path0, env.resps, 1)
        path == pp.path
    IN  IF pp.err # NoError THEN [W |-> W, err |-> pp.err, id |-> NoVolume]
        ELSE IF path = EmptyPath THEN newVolume(W, path, writable, env)
        ELSE IF get(W, path) # NoVolume
             THEN [W |-> W, err |-> NoError, id |-> get(W, path)]
             ELSE newVolume(W, path, writable, env)

\* Delete's test of the volume's containers.
InUse_Never(W, id) == FALSE

InUse(W, id) == Containers(W, id) # {}

\* Delete's test of the graph driver's answer to Remove: an error that is not
\* os.IsNotExist makes Delete fail.
RemoveFailed_AnyError(outcome) == outcome # "ok"

RemoveFailed(outcome) == outcome = "err"

\* delete(r.volumes, volume.Path)
deleteEntry_Keep(W, path) == W

deleteEntry(W, path) ==
    [W EXCEPT !.volumes = [p \in DOMAIN @ \ {path} |-> @[p]]]

\* Repository.Delete, between Lock and Unlock; env.rmAll is the outcome of
\* os.RemoveAll on the metadata directory and env.remove what the graph driver
\* answers to Remove.  `ids` are the containers an in-use error lists.
Delete(W, path0, env) ==
    LET e == EvalSymlinks(path0, W.dirs)
        id == get(W, Clean(e.path))
        v == W.vol[id]
        W1 == [W EXCEPT !.meta = [i \in DOMAIN @ \ {id} |-> @[i]]]
        W2 == IF v.IsBindMount THEN W1
              ELSE [W1 EXCEPT !.removeCalls = @ \cup {[id |-> id, refs |-> v.containers,
                                                          explicit |-> TRUE]},
                              !.dirs = IF env.remove = "err" THEN @
                                       ELSE @ \ {DriverGet(id)}]
        fail(W0, err) == [W |-> W0, err |-> err, ids |-> {}]
    IN  IF ~e.ok THEN fail(W, "NotExist")
        ELSE IF id = NoVolume THEN fail(W, "VolumeNotExist")
        ELSE IF InUse(W, id) THEN [W |-> W, err |-> "InUse", ids |-> Containers(W, id)]
        ELSE IF ~env.rmAll THEN fail(W, "RemoveAllError")
        ELSE IF ~v.IsBindMount /\ RemoveFailed(env.remove)
             THEN fail(W2, "DriverRemoveError")
        ELSE [W |-> deleteEntry(W2, v.Path), err |-> NoError, ids |-> {}]

\* Repository.restore: the metadata directory is read in name order.
RECURSIVE restoreFrom(_, _)
restoreFrom(W, n) ==
    IF n >= W.nextID THEN W
    ELSE LET id == GenerateRandomID(n)
         IN  IF id \notin DOMAIN W.meta THEN restoreFrom(W, n + 1)
             ELSE LET blank == [ID |-> id, Path |-> EmptyPath, Writable |-> FALSE,
                                containers |-> {}, IsBindMount |-> FALSE]
                      W1 == [W EXCEPT !.vol = (id :> FromDisk(blank, W.meta[id])) @@ @]
                  IN  restoreFrom(add(W1, id), n + 1)

\* NewRepository after a daemon restart: an empty map, then restore.
restore(W) ==
    restoreFrom([W EXCEPT !.volumes = <<>>, !.vol = <<>>], 1)

\* -------------------------------------------------------------- containers
\* The container path every container mounts its volume at.
ToPath == <<"/", "data">>

NoContainer == [state |-> "none", bind |-> EmptyPath, Volumes |-> <<>>]

\* Container.VolumePaths
VolumePaths(ct) == {ct.Volumes[k] : k \in DOMAIN ct.Volumes}

\* Container.createVolumes of a container whose configuration names one mount
\* point, ToPath: a volume of Config.Volumes when ct.bind is empty, the bind
\* mount "<ct.bind>:<ToPath>" of hostConfig.Binds otherwise; no VolumesFrom.
\* `added` tells whether AddContainer was called.
createVolumes(W, ct, c, env) ==
    LET fromPath == IF ct.bind = EmptyPath THEN EmptyPath ELSE Clean(ct.bind)
        r == FindOrCreateVolume(W, fromPath, c, TRUE, env)
    IN  IF ct.bind = EmptyPath /\ ToPath \in DOMAIN ct.Volumes
        THEN [W |-> W, ct |-> ct, err |-> NoError, added |-> FALSE]
        ELSE IF r.err # NoError
             THEN [W |-> r.W, ct |-> ct, err |-> r.err, added |-> FALSE]
        ELSE [W |-> AddContainer(r.W, r.id, c),
              ct |-> [ct EXCEPT !.Volumes = (ToPath :> r.W.vol[r.id].Path) @@ @],
              err |-> NoError, added |-> TRUE]

\* Container.registerVolumes; VolumesRW is keyed by container path, so the
\* lookup by volume path finds nothing and the volume is taken writable.
registerVolumes(W, ct, c, env) ==
    IF VolumePaths(ct) = {} THEN [W |-> W, added |-> FALSE]
    ELSE LET path == CHOOSE q \in VolumePaths(ct) : TRUE
             r == FindOrCreateVolume(W, path, c, TRUE, env)
         IN  IF Get(W, path) # NoVolume
             THEN [W |-> AddContainer(W, Get(W, path), c), added |-> TRUE]
             ELSE IF r.err # NoError THEN [W |-> r.W, added |-> FALSE]
             ELSE [W |-> AddContainer(r.W, r.id, c), added |-> TRUE]

\* A derefVolumes that empties the volume's set of containers.
derefVolumes_Clear(W, ct, c) ==
    IF VolumePaths(ct) = {} THEN [W |-> W, removed |-> FALSE]
    ELSE LET path == CHOOSE q \in VolumePaths(ct) : TRUE
         IN  IF Get(W, path) = NoVolume THEN [W |-> W, removed |-> FALSE]
             ELSE [W |-> [W EXCEPT !.vol[Get(W, path)].containers = {}],
                   removed |-> TRUE]

\* Container.derefVolumes
derefVolumes(W, ct, c) ==
    IF VolumePaths(ct) = {} THEN [W |-> W, removed |-> FALSE]
    ELSE LET path == CHOOSE q \in VolumePaths(ct) : TRUE
         IN  IF Get(W, path) = NoVolume THEN [W |-> W, removed |-> FALSE]
             ELSE [W |-> RemoveContainer(W, Get(W, path), c), removed |-> TRUE]

\* container.volumes: the volumes of the repository the container mounts.
containerVolumes(W, ct) == {Get(W, q) : q \in VolumePaths(ct)} \ {NoVolume}

\* daemon.volumeDriver.Remove(v): the driver deletes the volume's directory.
\* The call is recorded with the containers that reference the volume.
volumeDriverRemove(W, id, explicit) ==
    [W EXCEPT !.removeCalls = @ \cup {[id |-> id, refs |-> W.vol[id].containers,
                                       explicit |-> explicit]},
              !.dirs = @ \ {DriverGet(id)}]

\* for _, v := range container.volumes { daemon.volumeDriver.Remove(v) }
removeVolumes(W, ct, explicit) ==
    IF containerVolumes(W, ct) = {} THEN W
    ELSE volumeDriverRemove(W, CHOOSE i \in containerVolumes(W, ct) : TRUE, explicit)

\* Daemon.DeleteVolumes
DeleteVolumes(W, ct) == removeVolumes(W, ct, TRUE)

\* Daemon.commonRm; env.rm is "ok", "stopErr" (container.Stop fails) or
\* "driverErr" (a later step fails, after SetDead).  On an error the deferred
\* function still deletes the container from the indexes when forceRemove.
commonRm(ct, forceRemove, env) ==
    IF env.rm = "ok" THEN [ct |-> [ct EXCEPT !.state = "removed"], err |-> NoError]
    ELSE IF forceRemove THEN [ct |-> [ct EXCEPT !.state = "removed"], err |-> "RmError"]
    ELSE IF env.rm = "stopErr" THEN [ct |-> ct, err |-> "RmError"]
    ELSE [ct |-> [ct EXCEPT !.state = "dead"], err |-> "RmError"]

\* Daemon.ContainerRm of an existing container; env.running is
\* container.IsRunning(), env.kill the outcome of container.Kill().
ContainerRm(W, ct, config, env) ==
    LET rm == commonRm(ct, config.ForceRemove, env)
        W1 == IF config.RemoveVolume THEN removeVolumes(W, ct, config.RemoveVolume) ELSE W
    IN  IF config.RemoveLink THEN [W |-> W, ct |-> ct, err |-> env.link]
        ELSE IF env.running /\ ~config.ForceRemove
             THEN [W |-> W, ct |-> ct, err |-> "Conflict"]
        ELSE IF env.running /\ ~env.kill THEN [W |-> W, ct |-> ct, err |-> "KillError"]
        ELSE IF ~config.ForceRemove /\ rm.err # NoError
             THEN [W |-> W, ct |-> rm.ct, err |-> "CannotDestroy"]
        ELSE [W |-> W1, ct |-> rm.ct, err |-> NoError]

\* ------------------------------------------------------- plugin repository
\* plugins.Repository.RegisterPlugin; hs is the answer to the handshake.
supportedPluginTypes == {"volume"}

RECURSIVE registerInterests(_, _, _, _)
registerInterests(P, addr, interests, i) ==
    IF i > Len(interests) THEN [P |-> P, err |-> NoError]
    ELSE IF interests[i] \notin supportedPluginTypes
         THEN [P |-> P, err |-> "NotSupported"]
         ELSE registerInterests(
                  IF interests[i] \in DOMAIN P
                  THEN [P EXCEPT ![interests[i]] = Append(@, [addr |-> addr, kind |-> interests[i]])]
                  ELSE (interests[i] :> <<[addr |-> addr, kind |-> interests[i]]>>) @@ P,
                  addr, interests, i + 1)

RegisterPluginOp(P, addr, hs) ==
    IF hs.err THEN [P |-> P, err |-> "HandshakeError"]
    ELSE registerInterests(P, addr, hs.InterestedIn, 1)

\* plugins.Repository.GetPlugins: the plugins of a kind (none when the kind is
\* not registered: both variants give the caller an empty list to range over).
GetPlugins(P, kind) == IF kind \in DOMAIN P THEN P[kind] ELSE <<>>

\* ------------------------------------------------------ plugin activation
PluginNames == {"p", "q"}

\* `var m *Manifest`: a nil pointer; `new(Manifest)`: a pointer to an empty one.
NilManifest == [nil |-> TRUE, Implements |-> <<>>]
NewManifest == [nil |-> FALSE, Implements |-> <<>>]

\* What a plugin's endpoint does with a Plugin.Activate request: the dial
\* fails; a status other than 200 whose body can ("status") or cannot
\* ("statusUnread") be read; status 200 with a body that is no JSON
\* ("garbage"); status 200 with a manifest.
Manifests == {<<>>, <<"network", "VolumeDriver">>}

Answers ==
    {[kind |-> k, Implements |-> <<>>] :
        k \in {"dialErr", "status", "statusUnread", "garbage"}}
    \cup {[kind |-> "ok", Implements |-> m] : m \in Manifests}

FailedAnswers == {"dialErr", "status", "statusUnread", "garbage"}

\* json Decode(&ret) inside Client.Call, ret being the interface value the
\* caller passed: a non-nil pointer is filled in; with a nil pointer the
\* document is decoded into Call's own copy and the caller's pointer stays nil.
Decode(ret, implements) ==
    IF ret.nil THEN ret ELSE [ret EXCEPT !.Implements = implements]

\* Client.Call("Plugin.Activate", nil, ret)
ClientCall(answer, ret) ==
    IF answer.kind = "dialErr" THEN [err |-> "DialError", ret |-> ret]
    ELSE IF answer.kind = "status" THEN [err |-> "PluginError", ret |-> ret]
    ELSE IF answer.kind = "statusUnread" THEN [err |-> NoError, ret |-> ret]
    ELSE IF answer.kind = "garbage" THEN [err |-> "DecodeError", ret |-> ret]
    ELSE [err |-> NoError, ret |-> Decode(ret, answer.Implements)]

\* RemotePlugin.Activate
RemotePluginActivate(answer) ==
    IF answer.kind = "dialErr" THEN [err |-> "DialError", Extensions |-> <<>>]
    ELSE IF answer.kind \in {"status", "statusUnread"}
         THEN [err |-> "RequestFailed", Extensions |-> <<>>]
    ELSE IF answer.kind = "garbage" THEN [err |-> "DecodeError", Extensions |-> <<>>]
    ELSE IF Len(answer.Implements) = 0
         THEN [err |-> "NoExtensionPoints", Extensions |-> answer.Implements]
    ELSE [err |-> NoError, Extensions |-> answer.Implements]

\* driverExtpoint.Register / Unregister on the map of extensions.
Register_Replace(ext, extension, name) ==
    IF name = "" THEN [ext |-> ext, ok |-> FALSE]
    ELSE [ext |-> [n \in DOMAIN ext \cup {name} |->
                     IF n = name THEN extension ELSE ext[n]],
          ok |-> TRUE]

Register(ext, extension, name) ==
    IF name = "" \/ name \in DOMAIN ext THEN [ext |-> ext, ok |-> FALSE]
    ELSE [ext |-> (name :> extension) @@ ext, ok |-> TRUE]

Unregister(ext, name) ==
    IF name \notin DOMAIN ext THEN [ext |-> ext, ok |-> FALSE]
    ELSE [ext |-> [n \in DOMAIN ext \ {name} |-> ext[n]], ok |-> TRUE]

\* The drivers: the built-in one NewDaemon registers under its name "local",
\* the drivers callers hand to Register, and the adapter made for a plugin
\* (&volumeDriverAdapter{name, proxy}, NewVolumeDriver(name, pl.Client)).
LocalDriver == "localDriver"
Drivers == {"d1", "d2"}
Adapter(name) == IF name = "p" THEN "adapterP" ELSE "adapterQ"
NilDriver == "nil"

\* extpointHandlers.handlers: init() of volume/plugins installs the handler of
\* "VolumeDriver", which registers an adapter under the plugin's name.
extpointHandlers == {"VolumeDriver"}

\* The loop of Plugin.Activate over m.Implements: the extensions after the
\* handlers have run, and how many handlers were invoked.
RECURSIVE dispatch(_, _, _, _)
dispatch(ext, name, implements, i) ==
    IF i > Len(implements) THEN [ext |-> ext, handled |-> 0]
    ELSE IF implements[i] \notin extpointHandlers
         THEN dispatch(ext, name, implements, i + 1)
         ELSE LET d == dispatch(Register(ext, Adapter(name), name).ext, name, implements, i + 1)
              IN  [d EXCEPT !.handled = @ + 1]

\* Plugin.Activate of plugins.go, once activePlugins is locked and the name is
\* not in it, with the plugin's answer: m is a nil *Manifest when it is handed
\* to Call, so after a Call without error m.Implements dereferences nil.
Plugin_Activate(active, ext, name, answer) ==
    LET c == ClientCall(answer, NilManifest)
        m == c.ret
        d == dispatch(ext, name, m.Implements, 1)
    IN  IF c.err # NoError
        THEN [err |-> c.err, active |-> active, ext |-> ext, handled |-> 0]
        ELSE IF m.nil
             THEN [err |-> "panic", active |-> active, ext |-> ext, handled |-> 0]
        ELSE [err |-> NoError, active |-> active \cup {name}, ext |-> d.ext,
              handled |-> d.handled]

\* The check at the head of Plugin.Activate.
AlreadyActivated(active, name) == name \in active

\* Plugin.activate of the storage variant (m := new(Manifest)).
plugin_activate(answer) ==
    LET c == ClientCall(answer, NewManifest)
    IN  [err |-> c.err, Implements |-> c.ret.Implements]

\* load(name): `found` is the outcome of registry.Plugin(name).
plugins_load(found, answer) ==
    IF ~found THEN [err |-> "NotFound", Implements |-> <<>>]
    ELSE plugin_activate(answer)

\* get(name), between storage.Lock and Unlock.
plugins_get_NoStore(store, name, found, answer) ==
    IF name \in DOMAIN store
    THEN [store |-> store, err |-> NoError, Implements |-> store[name]]
    ELSE LET l == plugins_load(found, answer)
         IN  [store |-> store, err |-> l.err, Implements |-> l.Implements]

plugins_get(store, name, found, answer) ==
    IF name \in DOMAIN store
    THEN [store |-> store, err |-> NoError, Implements |-> store[name]]
    ELSE LET l == plugins_load(found, answer)
         IN  IF l.err # NoError
             THEN [store |-> store, err |-> l.err, Implements |-> <<>>]
             ELSE [store |-> (name :> l.Implements) @@ store, err |-> NoError,
                   Implements |-> l.Implements]

\* Get(name, imp) of the storage variant.
plugins_GetImp(store, name, imp, found, answer) ==
    LET g == plugins_get(store, name, found, answer)
    IN  IF g.err # NoError THEN g
        ELSE IF \E i \in 1..Len(g.Implements) : g.Implements[i] = imp THEN g
        ELSE [g EXCEPT !.err = "ErrNotImplements"]

\* volumedrivers.Lookup on a miss, after plugins.Get has answered.
Lookup_NoStore(ext, store, name, found, answer) ==
    LET g == plugins_GetImp(store, name, "VolumeDriver", found, answer)
    IN  [ext |-> ext, store |-> g.store, err |-> g.err,
         ret |-> IF g.err # NoError THEN NilDriver ELSE Adapter(name)]

Lookup(ext, store, name, found, answer) ==
    LET g == plugins_GetImp(store, name, "VolumeDriver", found, answer)
    IN  IF g.err # NoError
        THEN [ext |-> ext, store |-> g.store, err |-> g.err, ret |-> NilDriver]
        ELSE [ext |-> [n \in DOMAIN ext \cup {name} |->
                          IF n = name THEN Adapter(name) ELSE ext[n]],
              store |-> g.store, err |-> NoError, ret |-> Adapter(name)]

\* ------------------------------------------------- mount point resolution
\* A bind or volumes-from specification is the sequence of its parts,
\* strings.Split(spec, ":"); host paths and destinations are paths.
MaxStarts == 3

HostH1 == <<"/", "h1">>
HostH2 == <<"/", "h2">>
PathADot == <<"/", "a", ".">>
RelA == <<"a">>
VolName == <<"vol">>

BindLists ==
    {<<>>,
     << <<HostH1, PathA>> >>,
     << <<HostH1, PathA, "ro">> >>,
     << <<HostH1, PathA, "z">> >>,
     << <<HostH1>> >>,
     << <<HostH1, RelA>> >>,
     << <<VolName, PathB>> >>,
     << <<HostH1, PathA>>, <<HostH2, PathADot>> >>,
     << <<HostH1, PathA>>, <<HostH2, PathB>> >>}

\* hostConfig.VolumesFrom of a container whose peer is `peer`, each entry as
\* strings.SplitN(spec, ":", 2) gives it.
VolumesFromLists(peer) ==
    {<<>>, << <<peer>> >>, << <<peer, "ro">> >>, << <<peer, "z">> >>}

validMountMode(mode) == mode \in {"rw", "ro"}

\* volume.Volume behind a mount point: nil, or the volume the driver made.
NilVolume == [name |-> <<>>, driver |-> ""]

\* Daemon.createVolume(name, driverName): getVolumeDriver takes "local" for
\* the empty driver name; the volume vd.Create(name) returns.
createVolume(name, driverName) ==
    [name |-> name, driver |-> IF driverName = "" THEN "local" ELSE driverName]

NoMountPoint ==
    [Name |-> <<>>, Destination |-> <<>>, Driver |-> "", RW |-> FALSE,
     Volume |-> NilVolume, source |-> <<>>]

\* parseBindMount(container, spec)
parseBindMount(VolumeDriver, arr) ==
    IF Len(arr) \notin {2, 3} THEN [err |-> "InvalidSpec", bind |-> NoMountPoint]
    ELSE [err |-> NoError,
          bind |-> [Name |-> IF IsAbs(arr[1]) THEN <<>> ELSE arr[1],
                    Driver |-> IF IsAbs(arr[1]) THEN "" ELSE VolumeDriver,
                    source |-> IF IsAbs(arr[1]) THEN Clean(arr[1]) ELSE <<>>,
                    Destination |-> Clean(arr[2]),
                    RW |-> IF Len(arr) = 2 THEN TRUE
                           ELSE validMountMode(arr[3]) /\ arr[3] = "rw",
                    Volume |-> NilVolume]]

\* parseBindMountSpec(spec) of createVolumes
parseBindMountSpec(arr) ==
    IF Len(arr) \notin {2, 3}
    THEN [err |-> "InvalidSpec", path |-> <<>>, toPath |-> <<>>, writable |-> FALSE]
    ELSE IF ~IsAbs(arr[1])
    THEN [err |-> "NotAbsolute", path |-> <<>>, toPath |-> <<>>, writable |-> FALSE]
    ELSE [err |-> NoError, path |-> Clean(arr[1]), toPath |-> Clean(arr[2]),
          writable |-> IF Len(arr) = 2 THEN TRUE
                       ELSE validMountMode(arr[3]) /\ arr[3] = "rw"]

\* parseVolumesFrom / parseVolumesFromSpec
parseVolumesFrom(parts) ==
    IF Len(parts) = 2 /\ ~validMountMode(parts[2])
    THEN [err |-> "InvalidMode", id |-> parts[1], mode |-> parts[2]]
    ELSE [err |-> NoError, id |-> parts[1],
          mode |-> IF Len(parts) = 2 THEN parts[2] ELSE "rw"]

\* MountPoint.Source(): the volume's path when there is a volume.
Source(m) == IF m.Volume # NilVolume THEN <<"volume">> \o m.Volume.name ELSE m.source

\* The first loop of registerMountPoints, from entry i of VolumesFrom on.  A
\* peer's MountPoints hold pointers: `cp := m` copies the pointer, so RW and
\* Volume are written into the peer's own MountPoint (heap[id]).  createOK is
\* whether the driver's Create calls succeed.
RECURSIVE registerVolumesFrom(_, _, _, _, _, _)
registerVolumesFrom(MP, heap, mountPoints, VolumesFrom, i, createOK) ==
    IF i > Len(VolumesFrom)
    THEN [err |-> NoError, heap |-> heap, mountPoints |-> mountPoints]
    ELSE LET p == parseVolumesFrom(VolumesFrom[i])
             peer == MP[p.id]
             ids == {peer[d] : d \in DOMAIN peer}
         IN  IF p.err # NoError
             THEN [err |-> p.err, heap |-> heap, mountPoints |-> mountPoints]
             ELSE IF p.id \notin DOMAIN MP
             THEN [err |-> "NoSuchContainer", heap |-> heap, mountPoints |-> mountPoints]
             ELSE IF ids # {} /\ ~createOK
             THEN [err |-> "CreateError", heap |-> heap, mountPoints |-> mountPoints]
             ELSE registerVolumesFrom(MP,
                     [k \in DOMAIN heap |->
                        IF k \in ids
                        THEN [heap[k] EXCEPT !.RW = (p.mode # "ro"),
                                             !.Volume = createVolume(heap[k].Name,
                                                                     heap[k].Driver)]
                        ELSE heap[k]],
                     [d \in DOMAIN mountPoints \cup DOMAIN peer |->
                        IF d \in DOMAIN peer THEN peer[d] ELSE mountPoints[d]],
                     VolumesFrom, i + 1, createOK)

\* The second loop of registerMountPoints, from entry i of Binds on.
RECURSIVE registerBinds(_, _, _, _, _, _, _)
registerBinds(VolumeDriver, heap, mountPoints, binds, Binds, i, createOK) ==
    IF i > Len(Binds)
    THEN [err |-> NoError, heap |-> heap, mountPoints |-> mountPoints]
    ELSE LET r == parseBindMount(VolumeDriver, Binds[i])
             bind == r.bind
             named == Len(bind.Name) > 0 /\ bind.Driver # ""
         IN  IF r.err # NoError
             THEN [err |-> r.err, heap |-> heap, mountPoints |-> mountPoints]
             ELSE IF bind.Destination \in binds
             THEN [err |-> "DuplicateBind", heap |-> heap, mountPoints |-> mountPoints]
             ELSE IF named /\ ~createOK
             THEN [err |-> "CreateError", heap |-> heap, mountPoints |-> mountPoints]
             ELSE registerBinds(VolumeDriver,
                     Append(heap,
                            IF named
                            THEN [bind EXCEPT !.Volume = createVolume(bind.Name, bind.Driver)]
                            ELSE bind),
                     (bind.Destination :> Len(heap) + 1) @@ mountPoints,
                     binds \cup {bind.Destination}, Binds, i + 1, createOK)

\* Daemon.registerMountPoints(container, hostConfig): container.MountPoints is
\* assigned only at the end; the MountPoints allocated by a call that fails
\* are dropped, what the first loop wrote into the peers' MountPoints stays.
registerMountPoints(S, c, hostConfig, createOK) ==
    LET f == registerVolumesFrom(S.MountPoints, S.heap, S.MountPoints[c],
                                 hostConfig.VolumesFrom, 1, createOK)
        b == registerBinds(S.VolumeDriver[c], f.heap, f.mountPoints, {},
                           hostConfig.Binds, 1, createOK)
    IN  IF f.err # NoError THEN [S EXCEPT !.heap = f.heap, !.err = f.err]
        ELSE IF b.err # NoError
        THEN [S EXCEPT !.heap = SubSeq(b.heap, 1, Len(S.heap)), !.err = b.err]
        ELSE [S EXCEPT !.heap = b.heap, !.MountPoints[c] = b.mountPoints,
                       !.err = NoError]

\* createVolumes: the mounts of Config.Volumes that container.Volumes lacks.
configMounts(S, c) ==
    [p \in {Clean(q) : q \in S.Config[c]} \ DOMAIN S.Volumes[c] |->
        [fromPath |-> <<>>, writable |-> TRUE, from |-> ""]]

\* A loop over hostConfig.Binds that mounts nothing.
bindMounts_Ignored(mounts, bindPaths, Binds, i) == [err |-> NoError, mounts |-> mounts]

\* createVolumes: the loop over hostConfig.Binds, from entry i on.
RECURSIVE bindMounts(_, _, _, _)
bindMounts(mounts, bindPaths, Binds, i) ==
    IF i > Len(Binds) THEN [err |-> NoError, mounts |-> mounts]
    ELSE LET r == parseBindMountSpec(Binds[i])
         IN  IF r.err # NoError THEN [err |-> r.err, mounts |-> mounts]
             ELSE IF r.toPath \in bindPaths
             THEN [err |-> "DuplicateBind", mounts |-> mounts]
             ELSE bindMounts((r.toPath :> [fromPath |-> r.path, writable |-> r.writable,
                                           from |-> ""]) @@ mounts,
                             bindPaths \cup {r.toPath}, Binds, i + 1)

\* Container.volumeMounts() of the peer with the changes createVolumes makes.
volumeMounts(S, cID, mode) ==
    [toPath \in DOMAIN S.Volumes[cID] |->
        [fromPath |-> S.Volumes[cID][toPath].path,
         writable |-> S.Volumes[cID][toPath].rw /\ (mode = "rw"),
         from |-> cID]]

\* createVolumes: the loop over hostConfig.VolumesFrom, from entry i on.
RECURSIVE volumesFromMounts(_, _, _, _, _)
volumesFromMounts(S, c, mounts, VolumesFrom, i) ==
    IF i > Len(VolumesFrom) THEN [err |-> NoError, mounts |-> mounts]
    ELSE LET p == parseVolumesFrom(VolumesFrom[i])
         IN  IF p.err # NoError THEN [err |-> p.err, mounts |-> mounts]
             ELSE IF p.id \in S.AppliedVolumesFrom[c]
             THEN volumesFromMounts(S, c, mounts, VolumesFrom, i + 1)
             ELSE IF p.id \notin DOMAIN S.Volumes
             THEN [err |-> "NoSuchContainer", mounts |-> mounts]
             ELSE volumesFromMounts(S, c, volumeMounts(S, p.id, p.mode) @@ mounts,
                                    VolumesFrom, i + 1)

\* The path of the volume FindOrCreateVolume returns: a new directory for the
\* empty path, the path itself otherwise.
volumePathOf(c, fromPath) == IF fromPath = <<>> THEN <<"/", "vfs", c>> ELSE fromPath

\* createVolumes: the `mounts` map after the three loops that fill it.
plannedMounts(S, c, hostConfig) ==
    LET b == bindMounts(configMounts(S, c), {}, hostConfig.Binds, 1)
        f == volumesFromMounts(S, c, b.mounts, hostConfig.VolumesFrom, 1)
    IN  IF b.err # NoError THEN b ELSE f

\* Container.createVolumes with the container's bind mounts and volumes-from.
\* The last loop ranges over the `mounts` map and records each mount as soon
\* as FindOrCreateVolume has returned its volume: when a call fails (findOK
\* is false) the mounts at the destinations `written`, those the loop came to
\* first, are recorded already.
createVolumesFrom(S, c, hostConfig, findOK, written) ==
    LET p == plannedMounts(S, c, hostConfig)
        mounts == p.mounts
        done == IF findOK THEN DOMAIN mounts ELSE written \cap DOMAIN mounts
    IN  IF p.err # NoError THEN [S EXCEPT !.err = p.err]
        ELSE [S EXCEPT
                !.Volumes[c] =
                    [d \in done |->
                        [path |-> volumePathOf(c, mounts[d].fromPath),
                         rw |-> mounts[d].writable]] @@ S.Volumes[c],
                !.AppliedVolumesFrom[c] =
                    @ \cup ({mounts[d].from : d \in done} \ {""}),
                !.err = IF findOK THEN NoError ELSE "FindOrCreateError"]

\* strings.Split(path, string(os.PathSeparator)) of a path: "/" gives two
\* empty strings, "/a" an empty string and "a".
SplitSeparator(p) ==
    IF ~IsAbs(p) THEN p
    ELSE IF Len(p) = 1 THEN <<"", "">>
    ELSE <<"">> \o Tail(p)

\* mounts.parts(i)
parts(Destination) == Len(SplitSeparator(Clean(Destination)))

\* mounts.Less(i, j)
Less(a, b) == parts(a) < parts(b)

\* The orders of the destinations in S, as sequences without repetition.
Orders(S) ==
    {o \in [1..Cardinality(S) -> S] : \A i, j \in 1..Cardinality(S) : i # j => o[i] # o[j]}

\* sortMounts(m): sort.Sort is not stable and setupMounts collects the mounts
\* by ranging over a map, so the result is any order in which no mount
\* precedes one that is Less than it.
sortMounts(S) ==
    {o \in Orders(S) : \A i, j \in 1..Cardinality(S) : i < j => ~Less(o[j], o[i])}

\* The order of strings on path names: names are compared by their first
\* letters, a path sorts after each of its prefixes, "/" sorts before letters.
NameRank(n) == IF n = "/" THEN 0 ELSE IF n = "a" THEN 1 ELSE IF n = "b" THEN 2 ELSE 3

RECURSIVE StringLess(_, _)
StringLess(a, b) ==
    IF b = <<>> THEN FALSE
    ELSE IF a = <<>> THEN TRUE
    ELSE IF Head(a) # Head(b) THEN NameRank(Head(a)) < NameRank(Head(b))
    ELSE StringLess(Tail(a), Tail(b))

\* Container.sortedVolumeMounts(): sort.Strings of the destinations.
sortedVolumeMounts(S) ==
    {o \in Orders(S) : \A i, j \in 1..Cardinality(S) : i < j => StringLess(o[i], o[j])}

\* The destinations a container may mount volumes at.
PathAB == <<"/", "a", "b">>
PathABC == <<"/", "a", "b", "c">>
DestinationPool == {Root, PathA, PathB, PathAB, PathABC}

\* No container has mount points: the state outside SpecMounts.
NoMounts ==
    [gen |-> "none", Config |-> <<>>, MountPoints |-> <<>>, heap |-> <<>>,
     Volumes |-> <<>>, AppliedVolumesFrom |-> <<>>, starts |-> 0, err |-> NoError,
     last |-> [c |-> "", Binds |-> <<>>, VolumesFrom |-> <<>>],
     Destinations |-> {}, Mounts |-> <<>>, sorter |-> "", VolumeDriver |-> <<>>,
     lifecycle |-> <<>>, create |-> [Volumes |-> {}, calls |-> <<>>]]

\* Daemon.Create: a MountPoint with a new volume for every destination of
\* Config.Volumes (no hostConfig is given at creation).
createdMountPoint(c, destination, VolumeDriver) ==
    LET v == createVolume(<<"id", c>>, VolumeDriver)
    IN  [Name |-> v.name, Driver |-> v.driver, Destination |-> destination,
         RW |-> TRUE, Volume |-> v, source |-> <<>>]

\* The containers after creation: c1 declares the volume /a and c2 may
\* declare it too.  gen "M" is the daemon of registerMountPoints, where
\* creation makes the mount points; gen "V" is the daemon of createVolumes,
\* where container.Volumes is filled when the container starts.  c1 is
\* created with Config.VolumeDriver empty or naming a driver.
InitialMounts ==
    {[NoMounts EXCEPT
        !.gen = "M",
        !.Config = [c \in ContainerIDs |-> IF c = "c1" \/ both THEN {PathA} ELSE {}],
        !.VolumeDriver = [c \in ContainerIDs |-> IF c = "c1" THEN vd ELSE ""],
        !.MountPoints = [c \in ContainerIDs |->
                           IF c = "c1" THEN (PathA :> 1)
                           ELSE IF both THEN (PathA :> 2) ELSE <<>>],
        !.heap = IF both THEN <<createdMountPoint("c1", PathA, vd),
                                createdMountPoint("c2", PathA, "")>>
                 ELSE <<createdMountPoint("c1", PathA, vd)>>] :
        both \in BOOLEAN, vd \in {"", "d1"}}
    \cup
    {[NoMounts EXCEPT
        !.gen = "V",
        !.Config = [c \in ContainerIDs |-> IF c = "c1" \/ both THEN {PathA} ELSE {}],
        !.Volumes = [c \in ContainerIDs |-> <<>>],
        !.AppliedVolumesFrom = [c \in ContainerIDs |-> {}]] : both \in BOOLEAN}

\* config.Volumes of a create request: each entry is strings.Split(spec, ":"),
\* a destination or a volume name and a destination.
ConfigVolumes ==
    {{}, {<<PathA>>}, {<<PathA>>, <<PathADot>>}, {<<PathA>>, <<PathB>>},
     {<<VolName, PathB>>}, {<<PathA>>, <<VolName, PathA>>}}

\* The name and the destination Daemon.Create takes from an entry of
\* config.Volumes; stringid.GenerateRandomID() is a name no other volume has.
GeneratedID(c, destination) == <<"id", c>> \o destination
volumeName(c, spec) ==
    IF Len(spec) = 2 THEN spec[1] ELSE GeneratedID(c, Clean(spec[1]))
volumeDestination(spec) == IF Len(spec) = 2 THEN Clean(spec[2]) ELSE Clean(spec[1])

\* A loop over config.Volumes that does not skip the destinations that are
\* mounted already.
RECURSIVE createConfigVolumes_NoSkip(_, _, _, _, _)
createConfigVolumes_NoSkip(S, c, order, i, createOK) ==
    IF i > Len(order) THEN [S EXCEPT !.err = NoError]
    ELSE LET destination == volumeDestination(order[i])
             v == createVolume(volumeName(c, order[i]), S.VolumeDriver[c])
             m == [Name |-> v.name, Driver |-> v.driver, Destination |-> destination,
                   RW |-> TRUE, Volume |-> v, source |-> <<>>]
         IN  IF ~createOK THEN [S EXCEPT !.err = "CreateError"]
             ELSE createConfigVolumes_NoSkip(
                     [S EXCEPT !.heap = Append(@, m),
                               !.MountPoints[c] = (destination :> Len(S.heap) + 1) @@ @,
                               !.create.calls = Append(@, [volume |-> v,
                                                          destination |-> destination])],
                     c, order, i + 1, createOK)

\* Daemon.Create, the loop over config.Volumes from entry i of `order` on,
\* `order` being the order in which the map is ranged over; createOK is
\* whether daemon.createVolume and v.Mount() succeed.
RECURSIVE createConfigVolumes(_, _, _, _, _)
createConfigVolumes(S, c, order, i, createOK) ==
    IF i > Len(order) THEN [S EXCEPT !.err = NoError]
    ELSE LET destination == volumeDestination(order[i])
             v == createVolume(volumeName(c, order[i]), S.VolumeDriver[c])
             m == [Name |-> v.name, Driver |-> v.driver, Destination |-> destination,
                   RW |-> TRUE, Volume |-> v, source |-> <<>>]
         IN  IF destination \in DOMAIN S.MountPoints[c]
             THEN createConfigVolumes(S, c, order, i + 1, createOK)
             ELSE IF ~createOK THEN [S EXCEPT !.err = "CreateError"]
             ELSE createConfigVolumes(
                     [S EXCEPT !.heap = Append(@, m),
                               !.MountPoints[c] = (destination :> Len(S.heap) + 1) @@ @,
                               !.create.calls = Append(@, [volume |-> v,
                                                          destination |-> destination])],
                     c, order, i + 1, createOK)

\* Daemon.Create(config, hostConfig, name): setHostConfig registers the mount
\* points of hostConfig, then the loop over config.Volumes.
daemonCreateVolumes(S, c, order, hostConfig, createOK) ==
    LET R == registerMountPoints(S, c, hostConfig, createOK)
    IN  IF R.err # NoError THEN R
        ELSE createConfigVolumes(R, c, order, 1, createOK)

\* Before c1 is created: c2 exists with a volume at /a; c1's
\* config.VolumeDriver is empty or names a driver.
InitialCreates ==
    {[NoMounts EXCEPT
        !.gen = "C",
        !.Config = [c \in ContainerIDs |-> IF c = "c2" THEN {PathA} ELSE {}],
        !.VolumeDriver = [c \in ContainerIDs |-> IF c = "c1" THEN vd ELSE ""],
        !.MountPoints = [c \in ContainerIDs |->
                           IF c = "c2" THEN (PathA :> 1) ELSE <<>>],
        !.heap = <<createdMountPoint("c2", PathA, "")>>] : vd \in {"", "d1"}}

\* The requests the volume driver proxy has sent for one volume.
Methods == {"Create", "Mount", "Unmount", "Remove"}
NoRPCs == [m \in Methods |-> 0]

\* A volumeDriverProxy method that sends each request twice.
volumeDriverProxy_Twice(rpcs, method) == [rpcs EXCEPT ![method] = @ + 2]

\* volumeDriverProxy.Create / Mount / Unmount / Remove: one pp.c.Call of
\* "VolumeDriver.<method>".
volumeDriverProxy(rpcs, method) == [rpcs EXCEPT ![method] = @ + 1]

\* A container that is not created yet: its volume at /data has received no
\* request and is not mounted at the driver; `runs` counts its starts.
NoLifecycle == [phase |-> "none", rpcs |-> NoRPCs, mounted |-> 0, runs |-> 0, err |-> NoError]

\* Daemon.Create, the loop over config.Volumes for Volumes = {"/data"} and a
\* plugin as config.VolumeDriver: daemon.createVolume sends Create, v.Mount()
\* sends Mount, and an error of either ends the creation.
daemonCreate(l, createOK, mountOK) ==
    LET r1 == volumeDriverProxy(l.rpcs, "Create")
        r2 == volumeDriverProxy(r1, "Mount")
    IN  IF ~createOK THEN [l EXCEPT !.phase = "failed", !.rpcs = r1, !.err = "CreateError"]
        ELSE IF ~mountOK THEN [l EXCEPT !.phase = "failed", !.rpcs = r2, !.err = "MountError"]
        ELSE [l EXCEPT !.phase = "created", !.rpcs = r2, !.mounted = @ + 1, !.err = NoError]

\* Container.Start: setupMounts calls v.Mount() for the container's volume;
\* on an error the deferred function runs cleanup, which unmounts the root
\* filesystem and no volume.
containerStart(l, mountOK) ==
    LET r == volumeDriverProxy(l.rpcs, "Mount")
    IN  IF ~mountOK
        THEN [l EXCEPT !.phase = "stopped", !.rpcs = r, !.runs = @ + 1, !.err = "MountError"]
        ELSE [l EXCEPT !.phase = "running", !.rpcs = r, !.mounted = @ + 1,
                       !.runs = @ + 1, !.err = NoError]

\* Container.cleanup of a container that stops: no request to the volume
\* driver.
containerCleanup(l) == [l EXCEPT !.phase = "stopped", !.err = NoError]

\* Daemon.DeleteVolumes / the RemoveVolume loop of ContainerRm: one
\* daemon.volumeDriver.Remove for the container's volume.
daemonDeleteVolumes(l) ==
    [l EXCEPT !.phase = "deleted", !.rpcs = volumeDriverProxy(l.rpcs, "Remove"),
              !.err = NoError]

\* Daemon.ContainerRm of a container that is not running.
daemonContainerRm(l, RemoveVolume) ==
    IF RemoveVolume THEN daemonDeleteVolumes(l)
    ELSE [l EXCEPT !.phase = "removed", !.err = NoError]

\* No container is created yet.
InitialLifecycle ==
    [NoMounts EXCEPT !.gen = "L", !.lifecycle = [c \in ContainerIDs |-> NoLifecycle]]

\* A container about to start, with volumes at some destinations.
InitialSorts ==
    {[NoMounts EXCEPT !.gen = "S", !.Destinations = D] :
        D \in (SUBSET DestinationPool) \ {{}}}

\* ------------------------------------------------------------------- state
VARIABLES
    volumes,      \* Repository.volumes: path -> ID of the Volume stored
    vol,          \* the live Volume objects, by ID
    meta,         \* the metadata directories on disk: ID -> config.json
    dirs,         \* the directories of the host filesystem
    nextID,       \* how many ids GenerateRandomID has handed out, plus one
    plugins,      \* plugins.Repository.plugins: kind -> plugins
    lock,         \* the holder of Repository.lock
    pc,           \* the repository method each thread is in, or "idle"
    last,         \* the repository call that has just completed, and its result
    returned,     \* canonical path passed -> IDs FindOrCreateVolume returned for it
    containers,   \* the daemon's containers, by id
    calls,        \* container -> its AddContainer and RemoveContainer calls so far
    activePlugins, \* plugins.go: the names in activePlugins.plugins
    storage,      \* storage variant: storage.plugins, name -> Manifest.Implements
    extensions,   \* the driver extension point: drivers.extensions, name -> driver
    mu,           \* the holder of each mutex of the plugin packages
    ppc,          \* the plugin call each thread is in, and where
    rpcs,         \* name -> Plugin.Activate requests sent since all threads were idle
    plast,        \* the plugin call that has just completed, and its result
    mountState    \* the containers' mount points (MountPoints / Volumes, VolumesRW)

world == <<volumes, vol, meta, dirs, nextID>>
threads == <<lock, pc, last, returned>>
daemon == <<containers, calls>>
activation == <<activePlugins, storage, extensions, mu, ppc, rpcs, plast>>
vars == <<volumes, vol, meta, dirs, nextID, plugins, lock, pc, last, returned,
          containers, calls, activePlugins, storage, extensions, mu, ppc, rpcs,
          plast, mountState>>

\* The state an operation starts from; drvCreated and removeCalls collect the
\* graph driver Create and Remove calls the operation makes.
World ==
    [volumes |-> volumes, vol |-> vol, meta |-> meta, dirs |-> dirs,
     nextID |-> nextID, drvCreated |-> {}, removeCalls |-> {}]

\* The objects the repository map still points to; the others are garbage.
Live(W) == {W.volumes[p] : p \in DOMAIN W.volumes}

Commit(W) ==
    /\ volumes' = W.volumes
    /\ vol' = [i \in Live(W) |-> W.vol[i]]
    /\ meta' = W.meta
    /\ dirs' = W.dirs
    /\ nextID' = W.nextID

EmptyMap == [p \in {} |-> NoVolume]

\* The call of the other thread that overlapped the one just completed.
NoPeer == [err |-> "none", id |-> NoVolume, calls |-> 0]

NoCalls == [adds |-> 0, removes |-> 0, last |-> "none"]

\* No repository call has just completed.
NoCall ==
    [t |-> NoThread, op |-> "none", path |-> EmptyPath, key |-> EmptyPath,
     err |-> NoError, id |-> NoVolume, created |-> FALSE, drvCreated |-> {},
     refs |-> {}, ids |-> {}, known |-> FALSE, remove |-> "none",
     removeCalls |-> {}, peer |-> NoPeer, c |-> "none"]

\* ------------------------------------------------------ environment inputs
RequestPaths == {EmptyPath, PathA, PathLDot, PathB}
\* The paths Delete is called with: a bind mount's, through the symbolic link;
\* a path that may not exist; the graph driver's directories.
DeletePaths ==
    {PathLDot, PathB} \cup {DriverGet(GenerateRandomID(n)) : n \in 1..(nextID - 1)}

\* Thread t1 asks for writable volumes, t2 for read-only ones.
Writable(t) == t = "t1"

PluginAnswers ==
    {[err |-> TRUE, ModifiedHostPath |-> EmptyPath],
     [err |-> FALSE, ModifiedHostPath |-> EmptyPath],
     [err |-> FALSE, ModifiedHostPath |-> PathB]}

Handshakes ==
    {[err |-> TRUE, InterestedIn |-> <<>>],
     [err |-> FALSE, InterestedIn |-> <<"volume">>],
     [err |-> FALSE, InterestedIn |-> <<"volume", "network">>]}

\* What a call meets: the answers of the plugins, of the graph driver and of
\* Volume.initialize; initialize is not reached once the driver has failed.
CreateEnvs ==
    {[resps |-> r, create |-> o[1], init |-> o[2]] :
        r \in [1..Len(GetPlugins(plugins, "volume")) -> PluginAnswers],
        o \in {<<"ok", TRUE>>, <<"ok", FALSE>>, <<"createErr", TRUE>>, <<"getErr", TRUE>>}}

\* The outcomes of os.RemoveAll and of the graph driver's Remove; Remove is not
\* reached once RemoveAll has failed.
DeleteEnvs ==
    {[rmAll |-> TRUE, remove |-> r] : r \in {"ok", "notExist", "err"}}
    \cup {[rmAll |-> FALSE, remove |-> "ok"]}

\* The canonical form of a path on the filesystem d.
Canonical(p, d) ==
    LET e == EvalSymlinks(Clean(p), d) IN IF e.ok THEN Clean(e.path) ELSE Clean(p)

\* -------------------------------------------------------------------- init
\* No plugin call is in progress.
PIdle == [op |-> "idle", name |-> "", pos |-> "", list |-> <<>>, i |-> 0, ok |-> {}]

\* No plugin call has just completed.
NoPeerCall == [op |-> "none", name |-> "", err |-> NoError, kind |-> "none"]

NoPluginCall ==
    [t |-> NoThread, op |-> "none", name |-> "", err |-> NoError, kind |-> "none",
     Implements |-> <<>>, handled |-> 0, ok |-> {}, cached |-> FALSE,
     arg |-> NilDriver, ret |-> NilDriver, peer |-> NoPeerCall]

\* The plugin packages when the daemon starts: nothing is active, the "local"
\* driver is registered, no mutex is held.
InitActivation ==
    /\ activePlugins = {}
    /\ storage = EmptyMap
    /\ extensions = ("local" :> LocalDriver)
    /\ mu = [activePlugins |-> NoThread, storage |-> NoThread, drivers |-> NoThread]
    /\ ppc = [t \in Threads |-> PIdle]
    /\ rpcs = [n \in PluginNames |-> 0]
    /\ plast = NoPluginCall

Init ==
    /\ InitActivation
    /\ mountState = NoMounts
    /\ volumes = EmptyMap
    /\ vol = EmptyMap
    /\ meta = EmptyMap
    /\ dirs = {PathA, VfsRoot}
    /\ nextID = 1
    /\ plugins = EmptyMap
    /\ lock = NoThread
    /\ pc = [t \in Threads |-> "idle"]
    /\ last = NoCall
    /\ returned = EmptyMap
    /\ containers = [c \in ContainerIDs |-> NoContainer]
    /\ calls = [c \in ContainerIDs |-> NoCalls]

\* ----------------------------------------------------------------- threads
InCall(t) == pc[t] # "idle"
Pending(op) == Cardinality({t \in Threads : pc[t] = op})

\* A thread enters a repository method and waits for the lock.
Call(t, op) ==
    /\ pc[t] = "idle"
    /\ pc' = [pc EXCEPT ![t] = op]
    /\ last' = NoCall
    /\ UNCHANGED <<world, plugins, lock, returned, daemon, activation, mountState>>

CallFindOrCreateVolume(t) ==
    /\ nextID + Pending("FindOrCreateVolume") <= MaxVolumes
    /\ Call(t, "FindOrCreateVolume")

CallDelete(t) == Call(t, "Delete")

\* r.lock.Lock()
Lock(t) ==
    /\ InCall(t)
    /\ lock = NoThread
    /\ lock' = t
    /\ UNCHANGED <<world, plugins, pc, last, returned, daemon, activation, mountState>>

\* The deferred r.lock.Unlock() and the return of thread t.
Return(t) ==
    /\ lock' = NoThread
    /\ pc' = [pc EXCEPT ![t] = "idle"]

\* The call of the other thread completed while t was already in its own: `last`
\* is forgotten as soon as a thread enters a call, so a thread that is in a call
\* and sees the other thread's `last` entered before that call returned.
Concurrent(t) == InCall(t) /\ last.t \notin {t, NoThread}

\* The overlapping call of the same method for the same canonical path, if any.
Peer(t, op, key) ==
    IF Concurrent(t) /\ last.op = op /\ last.key = key
    THEN [err |-> last.err, id |-> last.id,
          calls |-> Cardinality(last.drvCreated) + Cardinality(last.removeCalls)]
    ELSE NoPeer

\* The body of FindOrCreateVolume, called with `passed`.
DoFindOrCreateVolume(t, passed) ==
    /\ pc[t] = "FindOrCreateVolume" /\ lock = t
    /\ \E env \in CreateEnvs :
         LET r == FindOrCreateVolume(World, passed, "", Writable(t), env)
             eff == PluginPath(passed, env.resps, 1).path
             key == IF eff = EmptyPath THEN EmptyPath ELSE Canonical(eff, r.W.dirs)
         IN  /\ Commit(r.W)
             /\ last' = [NoCall EXCEPT
                           !.t = t, !.op = "FindOrCreateVolume", !.path = passed,
                           !.key = key, !.err = r.err, !.id = r.id,
                           !.created = r.id # NoVolume /\ r.id \notin DOMAIN vol,
                           !.drvCreated = r.W.drvCreated,
                           !.peer = Peer(t, "FindOrCreateVolume", key)]
             /\ returned' =
                  IF r.err = NoError /\ passed # EmptyPath /\ Canonical(passed, r.W.dirs) = passed
                  THEN (passed :> ((IF passed \in DOMAIN returned THEN returned[passed] ELSE {})
                                   \cup {r.id})) @@ returned
                  ELSE returned
    /\ Return(t)
    /\ UNCHANGED <<plugins, daemon, activation, mountState>>

\* The body of Delete, called with `passed`.
DoDelete(t, passed) ==
    /\ pc[t] = "Delete" /\ lock = t
    /\ \E env \in DeleteEnvs :
         LET r == Delete(World, passed, env)
             id == get(World, passed)
         IN  /\ Commit(r.W)
             /\ last' = [NoCall EXCEPT
                           !.t = t, !.op = "Delete",
                           !.key = Canonical(passed, dirs),
                           !.err = r.err, !.id = id,
                           !.known = id # NoVolume,
                           !.refs = IF id = NoVolume THEN {} ELSE Containers(World, id),
                           !.ids = r.ids,
                           !.remove = IF r.W.removeCalls # {} THEN env.remove ELSE "none",
                           !.removeCalls = r.W.removeCalls,
                           !.peer = Peer(t, "Delete", Canonical(passed, dirs))]
             /\ returned' = IF r.err = NoError
                            THEN [p \in DOMAIN returned |-> returned[p] \ {id}]
                            ELSE returned
    /\ Return(t)
    /\ UNCHANGED <<plugins, daemon, activation, mountState>>

\* A container takes or drops its reference to a volume of the repository.
Ref(c, id) ==
    /\ id \in DOMAIN vol
    /\ Commit(AddContainer(World, id, c))
    /\ last' = NoCall
    /\ UNCHANGED <<plugins, lock, pc, returned, daemon, activation, mountState>>

Deref(c, id) ==
    /\ id \in DOMAIN vol
    /\ c \in vol[id].containers
    /\ Commit(RemoveContainer(World, id, c))
    /\ last' = NoCall
    /\ UNCHANGED <<plugins, lock, pc, returned, daemon, activation, mountState>>

\* A plugin registers with the daemon.
RegisterPlugin(addr) ==
    /\ Len(GetPlugins(plugins, "volume")) < MaxPlugins
    /\ \E hs \in Handshakes :
          LET r == RegisterPluginOp(plugins, addr, hs)
          IN  /\ plugins' = r.P
              /\ last' = [NoCall EXCEPT !.op = "RegisterPlugin", !.err = r.err]
    /\ UNCHANGED <<world, lock, pc, returned, daemon, activation, mountState>>

\* The daemon stops and starts again: NewRepository restores from disk.
Restart ==
    /\ \A t \in Threads : ~InCall(t)
    /\ Commit(restore(World))
    /\ last' = [NoCall EXCEPT !.op = "Restart"]
    /\ returned' = EmptyMap
    /\ plugins' = EmptyMap
    /\ UNCHANGED <<lock, pc, daemon, activation, mountState>>

Next ==
    \/ \E t \in Threads : CallFindOrCreateVolume(t)
    \/ \E t \in Threads : CallDelete(t)
    \/ \E t \in Threads : Lock(t)
    \/ \E t \in Threads, p \in RequestPaths : DoFindOrCreateVolume(t, p)
    \/ \E t \in Threads, p \in DeletePaths : DoDelete(t, p)
    \/ \E id \in DOMAIN vol : Ref("c1", id)
    \/ \E id \in DOMAIN vol : Deref("c1", id)
    \/ RegisterPlugin("unix:///plug.sock")
    \/ Restart

Spec == Init /\ [][Next]_vars

\* -------------------------------------------------------------- the daemon
\* The daemon's container handlers, one request at a time, without plugins.
ContainerBinds == {EmptyPath, PathA}

RmConfigs ==
    {[ForceRemove |-> f, RemoveVolume |-> v, RemoveLink |-> l] :
        f \in BOOLEAN, v \in BOOLEAN, l \in BOOLEAN}

\* What ContainerRm meets: env.link is the outcome of the link's removal,
\* env.running is container.IsRunning(), env.kill the outcome of
\* container.Kill() and env.rm that of commonRm.  Only the outcomes the
\* configuration lets ContainerRm reach are drawn.
RmEnvs(config) ==
    LET env(r, k, o, l) == [running |-> r, kill |-> k, rm |-> o, link |-> l]
        RmOutcomes == {"ok", "stopErr", "driverErr"}
    IN  IF config.RemoveLink
        THEN {env(FALSE, TRUE, "ok", l) : l \in {NoError, "LinkError"}}
        ELSE {env(FALSE, TRUE, o, NoError) : o \in RmOutcomes}
             \cup {env(TRUE, FALSE, "ok", NoError)}
             \cup (IF config.ForceRemove
                   THEN {env(TRUE, TRUE, o, NoError) : o \in RmOutcomes}
                   ELSE {})

InitContainers ==
    /\ InitActivation
    /\ mountState = NoMounts
    /\ volumes = EmptyMap
    /\ vol = EmptyMap
    /\ meta = EmptyMap
    /\ dirs = {PathA, VfsRoot}
    /\ nextID = 1
    /\ plugins = EmptyMap
    /\ lock = NoThread
    /\ pc = [t \in Threads |-> "idle"]
    /\ last = NoCall
    /\ returned = EmptyMap
    /\ containers \in [ContainerIDs ->
            {[state |-> "created", bind |-> b, Volumes |-> <<>>] : b \in ContainerBinds}]
    /\ calls = [c \in ContainerIDs |-> NoCalls]

Exists(c) == containers[c].state \in {"created", "dead"}

\* The objects the map or a container's volume path still leads to.
CommitDaemon(W) ==
    /\ volumes' = W.volumes
    /\ vol' = [i \in Live(W) |-> W.vol[i]]
    /\ meta' = W.meta
    /\ dirs' = W.dirs
    /\ nextID' = W.nextID
    /\ UNCHANGED <<plugins, lock, pc, returned, activation, mountState>>

Added(c, added) ==
    IF added THEN [calls EXCEPT ![c].adds = @ + 1, ![c].last = "add"] ELSE calls

\* container.prepareVolumes(); the calls are counted when `count`.
PrepareVolumes(c, count) ==
    /\ Exists(c)
    /\ nextID <= MaxVolumes
    /\ count => calls[c].adds < MaxCalls
    /\ \E env \in CreateEnvs :
         LET r == createVolumes(World, containers[c], c, env)
         IN  /\ CommitDaemon(r.W)
             /\ containers' = [containers EXCEPT ![c] = r.ct]
             /\ calls' = IF count THEN Added(c, r.added) ELSE calls
    /\ last' = NoCall

\* container.registerVolumes()
RegisterVolumes(c, count) ==
    /\ Exists(c)
    /\ nextID <= MaxVolumes
    /\ count => calls[c].adds < MaxCalls
    /\ \E env \in CreateEnvs :
         LET r == registerVolumes(World, containers[c], c, env)
         IN  /\ CommitDaemon(r.W)
             /\ calls' = IF count THEN Added(c, r.added) ELSE calls
    /\ last' = NoCall
    /\ UNCHANGED containers

\* container.derefVolumes()
DerefVolumes(c, count) ==
    /\ Exists(c)
    /\ count => calls[c].removes < MaxCalls
    /\ LET r == derefVolumes(World, containers[c], c)
       IN  /\ CommitDaemon(r.W)
           /\ calls' = IF count /\ r.removed
                       THEN [calls EXCEPT ![c].removes = @ + 1, ![c].last = "remove"]
                       ELSE calls
    /\ last' = NoCall
    /\ UNCHANGED containers

\* daemon.ContainerRm(name, config)
DoContainerRm(c) ==
    /\ Exists(c)
    /\ \E config \in RmConfigs :
       \E env \in RmEnvs(config) :
         LET r == ContainerRm(World, containers[c], config, env)
         IN  /\ CommitDaemon(r.W)
             /\ containers' = [containers EXCEPT ![c] = r.ct]
             /\ last' = [NoCall EXCEPT !.op = "ContainerRm", !.c = c, !.err = r.err,
                                       !.removeCalls = r.W.removeCalls]
    /\ UNCHANGED calls

\* daemon.DeleteVolumes(c)
DoDeleteVolumes(c) ==
    /\ Exists(c)
    /\ LET W == DeleteVolumes(World, containers[c])
       IN  /\ CommitDaemon(W)
           /\ last' = [NoCall EXCEPT !.op = "DeleteVolumes", !.c = c,
                                     !.removeCalls = W.removeCalls]
    /\ UNCHANGED daemon

\* daemon.volumes.Delete(path): the explicit removal of container c's volume.
DeleteVolume(c) ==
    /\ \E passed \in VolumePaths(containers[c]), env \in DeleteEnvs :
        LET r == Delete(World, passed, env)
        IN  /\ CommitDaemon(r.W)
            /\ last' = [NoCall EXCEPT !.op = "Delete", !.path = passed, !.err = r.err,
                                      !.ids = r.ids, !.removeCalls = r.W.removeCalls]
    /\ UNCHANGED daemon

\* Daemon.register of a container loaded from disk, as far as volumes go: the
\* container registers its volumes with the restored repository.
register(W, ct, c, env) ==
    IF ct.state \in {"created", "dead"} THEN registerVolumes(W, ct, c, env).W ELSE W

\* What register meets: the outcomes of FindOrCreateVolume matter only when
\* registerVolumes does not find the container's volume.
RegisterEnvs(W, ct) ==
    IF ct.state \in {"created", "dead"}
       /\ \E q \in VolumePaths(ct) : Get(W, q) = NoVolume
    THEN CreateEnvs
    ELSE {[resps |-> <<>>, create |-> "ok", init |-> TRUE]}

\* The daemon stops and starts again: NewRepository restores the volumes from
\* disk, then Daemon.restore loads and registers every container.  The
\* Container structs, with their Volumes maps, are read back from disk.
DaemonRestart ==
    /\ LET W0 == restore(World)
       IN  \E e1 \in RegisterEnvs(W0, containers["c1"]) :
             LET W1 == register(W0, containers["c1"], "c1", e1)
             IN  \E e2 \in RegisterEnvs(W1, containers["c2"]) :
                   LET W2 == register(W1, containers["c2"], "c2", e2)
                   IN  /\ W2.nextID <= MaxVolumes + 1
                       /\ CommitDaemon(W2)
    /\ last' = [NoCall EXCEPT !.op = "Restart"]
    /\ UNCHANGED daemon

NextContainers ==
    \/ \E c \in ContainerIDs : PrepareVolumes(c, FALSE)
    \/ \E c \in ContainerIDs : DerefVolumes(c, FALSE)
    \/ \E c \in ContainerIDs : DoContainerRm(c)
    \/ \E c \in ContainerIDs : DoDeleteVolumes(c)
    \/ \E c \in ContainerIDs : DeleteVolume(c)
    \/ DaemonRestart

SpecContainers == InitContainers /\ [][NextContainers]_vars

\* The containers' AddContainer and RemoveContainer calls alone, counted.
NextRefs ==
    \/ \E c \in ContainerIDs : PrepareVolumes(c, TRUE)
    \/ \E c \in ContainerIDs : RegisterVolumes(c, TRUE)
    \/ \E c \in ContainerIDs : DerefVolumes(c, TRUE)

SpecRefs == InitContainers /\ [][NextRefs]_vars

\* ------------------------------------------------- the plugin packages
\* Plugin.Activate requests per name between two moments of quiet.
MaxRPCs == 2

\* The plugins registry.Plugins() finds, or its error.
Discoveries ==
    {[err |-> TRUE, list |-> <<>>], [err |-> FALSE, list |-> <<"p">>],
     [err |-> FALSE, list |-> <<"p", "q">>]}

PluginOps == {"Get", "Lookup", "GetImp"}

\* The mutex a thread in `op` at `pos` locks next: Get and Load lock
\* activePlugins inside Activate; Lookup locks drivers and, holding it, calls
\* plugins.Get, which locks storage.
Wants_StorageFirst(op, pos) ==
    IF op \in {"Get", "Load"} /\ pos \in {"start", "activate"} THEN "activePlugins"
    ELSE IF op = "Lookup" /\ pos = "start" THEN "storage"
    ELSE IF op \in {"Lookup", "GetImp"} /\ pos = "get"
         THEN IF op = "Lookup" THEN "drivers" ELSE "storage"
    ELSE "none"

Wants(op, pos) ==
    IF op \in {"Get", "Load"} /\ pos \in {"start", "activate"} THEN "activePlugins"
    ELSE IF op = "Lookup" /\ pos = "start" THEN "drivers"
    ELSE IF op \in {"Lookup", "GetImp"} /\ pos = "get" THEN "storage"
    ELSE "none"

Mutexes == {"activePlugins", "storage", "drivers"}
Holds(t) == {l \in Mutexes : mu[l] = t}
Free(t) == mu[Wants(ppc[t].op, ppc[t].pos)] = NoThread
Locked(t) == [mu EXCEPT ![Wants(ppc[t].op, ppc[t].pos)] = t]
Unlocked(t) == [l \in Mutexes |-> IF mu[l] = t THEN NoThread ELSE mu[l]]

AllIdle == \A t \in Threads : ppc[t].op = "idle"

UnchangedRepository == UNCHANGED <<world, plugins, threads, daemon, mountState>>

\* A thread calls into the plugin packages.
PCall(t, op, name) ==
    /\ ppc[t].op = "idle"
    /\ ppc' = [ppc EXCEPT ![t] = [PIdle EXCEPT !.op = op, !.name = name,
                                   !.pos = IF op = "GetImp" THEN "get" ELSE "start"]]
    /\ rpcs' = IF AllIdle THEN [n \in PluginNames |-> 0] ELSE rpcs
    /\ plast' = NoPluginCall
    /\ UNCHANGED <<activePlugins, storage, extensions, mu>>
    /\ UnchangedRepository

\* The call of the other thread that returned while t was in its own: `plast`
\* is forgotten as soon as a thread enters a call.
PeerCall(t) ==
    IF plast.t \notin {t, NoThread}
    THEN [op |-> plast.op, name |-> plast.name, err |-> plast.err, kind |-> plast.kind]
    ELSE NoPeerCall

\* The call of thread t returns.
PFinish(t, err, kind, implements, handled) ==
    /\ ppc' = [ppc EXCEPT ![t] = PIdle]
    /\ plast' = [NoPluginCall EXCEPT
                   !.t = t, !.op = ppc[t].op, !.name = ppc[t].name, !.err = err,
                   !.kind = kind, !.Implements = implements, !.handled = handled,
                   !.ok = ppc[t].ok \cup (IF kind = "ok" THEN {ppc[t].name} ELSE {}),
                   !.peer = PeerCall(t)]

\* plugins.Get(name) of plugins.go up to the call of Activate: the look into
\* activePlugins and registry.Plugin(name).
GetRead(t) ==
    /\ ppc[t].op = "Get" /\ ppc[t].pos = "start"
    /\ Free(t)
    /\ IF ppc[t].name \in activePlugins
       THEN PFinish(t, NoError, "none", <<>>, 0)
       ELSE \E found \in BOOLEAN :
              IF found
              THEN ppc' = [ppc EXCEPT ![t].pos = "activate"] /\ plast' = plast
              ELSE PFinish(t, "NotFound", "none", <<>>, 0)
    /\ UNCHANGED <<activePlugins, storage, extensions, mu, rpcs>>
    /\ UnchangedRepository

\* plugins.Load() up to the first Activate: registry.Plugins().
LoadStart(t) ==
    /\ ppc[t].op = "Load" /\ ppc[t].pos = "start"
    /\ \E d \in Discoveries :
         IF d.err THEN PFinish(t, "DiscoveryError", "none", <<>>, 0)
         ELSE /\ ppc' = [ppc EXCEPT ![t].list = d.list, ![t].i = 1,
                                    ![t].name = d.list[1], ![t].pos = "activate"]
              /\ plast' = plast
    /\ UNCHANGED <<activePlugins, storage, extensions, mu, rpcs>>
    /\ UnchangedRepository

\* What follows an Activate that returned err: Get returns it; Load logs an
\* error and goes on with the next plugin, and a panic unwinds both.
AfterActivate(t, err, answer, handled) ==
    IF ppc[t].op = "Load" /\ err # "panic" /\ ppc[t].i < Len(ppc[t].list)
    THEN /\ ppc' = [ppc EXCEPT ![t].i = @ + 1, ![t].name = ppc[t].list[ppc[t].i + 1],
                               ![t].pos = "activate",
                               ![t].ok = @ \cup (IF answer.kind = "ok"
                                                 THEN {ppc[t].name} ELSE {})]
         /\ plast' = plast
    ELSE PFinish(t, IF ppc[t].op = "Load" /\ err # "panic" THEN NoError ELSE err,
                 answer.kind, answer.Implements, handled)

\* Plugin.Activate: activePlugins.Lock(), the test for the name and, when it is
\* not there, the Plugin.Activate request; the mutex stays locked meanwhile.
ActivateLock(t) ==
    /\ ppc[t].op \in {"Get", "Load"} /\ ppc[t].pos = "activate"
    /\ Free(t)
    /\ IF AlreadyActivated(activePlugins, ppc[t].name)
       THEN /\ AfterActivate(t, "AlreadyActivated",
                             [kind |-> "none", Implements |-> <<>>], 0)
            /\ UNCHANGED <<mu, rpcs>>
       ELSE /\ rpcs[ppc[t].name] < MaxRPCs
            /\ mu' = Locked(t)
            /\ rpcs' = [rpcs EXCEPT ![ppc[t].name] = @ + 1]
            /\ ppc' = [ppc EXCEPT ![t].pos = "rpc"]
            /\ plast' = plast
    /\ UNCHANGED <<activePlugins, storage, extensions>>
    /\ UnchangedRepository

\* The plugin answers and Plugin.Activate runs to its end.
ActivateReturn(t) ==
    /\ ppc[t].op \in {"Get", "Load"} /\ ppc[t].pos = "rpc"
    /\ \E answer \in Answers :
         LET r == Plugin_Activate(activePlugins, extensions, ppc[t].name, answer)
         IN  /\ r.handled > 0 => mu.drivers = NoThread
             /\ activePlugins' = r.active
             /\ extensions' = r.ext
             /\ AfterActivate(t, r.err, answer, r.handled)
    /\ mu' = Unlocked(t)
    /\ UNCHANGED <<storage, rpcs>>
    /\ UnchangedRepository

\* volumedrivers.Lookup(name): drivers.Lock() and the look into the map; on a
\* miss the mutex stays locked for the call of plugins.Get.
LookupLock(t) ==
    /\ ppc[t].op = "Lookup" /\ ppc[t].pos = "start"
    /\ Free(t)
    /\ IF ppc[t].name \in DOMAIN extensions
       THEN /\ ppc' = [ppc EXCEPT ![t] = PIdle]
            /\ plast' = [NoPluginCall EXCEPT
                           !.t = t, !.op = "Lookup", !.name = ppc[t].name,
                           !.ret = extensions[ppc[t].name], !.peer = PeerCall(t)]
            /\ mu' = mu
       ELSE /\ mu' = Locked(t)
            /\ ppc' = [ppc EXCEPT ![t].pos = "get"]
            /\ plast' = plast
    /\ UNCHANGED <<activePlugins, storage, extensions, rpcs>>
    /\ UnchangedRepository

\* The result of get, Get(name, imp) and Lookup reaches the caller.
GetDone(t, found, answer, kind) ==
    LET r == Lookup(extensions, storage, ppc[t].name, found, answer)
        g == plugins_GetImp(storage, ppc[t].name, "VolumeDriver", found, answer)
    IN  /\ storage' = g.store
        /\ extensions' = IF ppc[t].op = "Lookup" THEN r.ext ELSE extensions
        /\ mu' = Unlocked(t)
        /\ ppc' = [ppc EXCEPT ![t] = PIdle]
        /\ plast' = [NoPluginCall EXCEPT
                       !.t = t, !.op = ppc[t].op, !.name = ppc[t].name, !.err = g.err,
                       !.kind = kind, !.Implements = g.Implements,
                       !.cached = ppc[t].name \in DOMAIN storage,
                       !.ret = IF ppc[t].op = "Lookup" THEN r.ret ELSE NilDriver,
                       !.peer = PeerCall(t)]

\* get(name): storage.Lock(), the look into storage.plugins and, on a miss,
\* registry.Plugin(name) and the Plugin.Activate request of load.
GetLock(t) ==
    /\ ppc[t].op \in {"Lookup", "GetImp"} /\ ppc[t].pos = "get"
    /\ Free(t)
    /\ IF ppc[t].name \in DOMAIN storage
       THEN GetDone(t, TRUE, [kind |-> "none", Implements |-> <<>>], "none")
            /\ rpcs' = rpcs
       ELSE \E found \in BOOLEAN :
              IF found
              THEN /\ rpcs[ppc[t].name] < MaxRPCs
                   /\ mu' = Locked(t)
                   /\ rpcs' = [rpcs EXCEPT ![ppc[t].name] = @ + 1]
                   /\ ppc' = [ppc EXCEPT ![t].pos = "rpc"]
                   /\ UNCHANGED <<storage, extensions, plast>>
              ELSE /\ PFinish(t, "NotFound", "none", <<>>, 0)
                   /\ mu' = Unlocked(t)
                   /\ UNCHANGED <<storage, extensions, rpcs>>
    /\ UNCHANGED activePlugins
    /\ UnchangedRepository

\* The plugin answers; load, get, Get and Lookup run to their ends.
GetReturn(t) ==
    /\ ppc[t].op \in {"Lookup", "GetImp"} /\ ppc[t].pos = "rpc"
    /\ \E answer \in Answers : GetDone(t, TRUE, answer, answer.kind)
    /\ UNCHANGED <<activePlugins, rpcs>>
    /\ UnchangedRepository

\* drivers.Register(extension, name) and Unregister(name) by an idle thread.
DoRegister(t, extension, name) ==
    /\ ppc[t].op = "idle" /\ mu.drivers = NoThread
    /\ extensions' = Register(extensions, extension, name).ext
    /\ plast' = [NoPluginCall EXCEPT
                   !.t = t, !.op = "Register", !.name = name, !.arg = extension,
                   !.ret = IF Register(extensions, extension, name).ok
                           THEN "true" ELSE "false"]
    /\ UNCHANGED <<activePlugins, storage, mu, ppc, rpcs>>
    /\ UnchangedRepository

DoUnregister(t, name) ==
    /\ ppc[t].op = "idle" /\ mu.drivers = NoThread
    /\ extensions' = Unregister(extensions, name).ext
    /\ plast' = [NoPluginCall EXCEPT
                   !.t = t, !.op = "Unregister", !.name = name,
                   !.ret = IF Unregister(extensions, name).ok
                           THEN "true" ELSE "false"]
    /\ UNCHANGED <<activePlugins, storage, mu, ppc, rpcs>>
    /\ UnchangedRepository

\* RemotePlugin.Activate() by an idle thread.
DoRemotePluginActivate(t, name) ==
    /\ AllIdle
    /\ \E answer \in Answers :
         LET r == RemotePluginActivate(answer)
         IN  plast' = [NoPluginCall EXCEPT
                         !.t = t, !.op = "RemotePlugin.Activate", !.name = name,
                         !.err = r.err, !.kind = answer.kind,
                         !.Implements = r.Extensions]
    /\ UNCHANGED <<activePlugins, storage, extensions, mu, ppc, rpcs>>
    /\ UnchangedRepository

NextPlugins ==
    \/ \E t \in Threads, op \in PluginOps : PCall(t, op, "p")
    \/ PCall("t1", "Load", "")
    \/ \E t \in Threads : GetRead(t)
    \/ \E t \in Threads : LoadStart(t)
    \/ \E t \in Threads : ActivateLock(t)
    \/ \E t \in Threads : ActivateReturn(t)
    \/ \E t \in Threads : LookupLock(t)
    \/ \E t \in Threads : GetLock(t)
    \/ \E t \in Threads : GetReturn(t)
    \/ \E t \in Threads : DoRegister(t, "d1", "q")
    \/ \E t \in Threads : DoUnregister(t, "q")
    \/ DoRemotePluginActivate("t1", "p")

SpecPlugins == Init /\ [][NextPlugins]_vars

\* The driver extension point by itself: Register and Unregister of any name,
\* Lookup of a plugin's name, and the activation whose handler registers.
RegisterNames == {"", "local", "p", "q"}

NextDrivers ==
    \/ \E t \in Threads, d \in Drivers, n \in RegisterNames : DoRegister(t, d, n)
    \/ \E t \in Threads, n \in RegisterNames : DoUnregister(t, n)
    \/ \E op \in {"Lookup", "Get"} : PCall("t1", op, "p")
    \/ LookupLock("t1")
    \/ GetLock("t1")
    \/ GetReturn("t1")
    \/ GetRead("t1")
    \/ ActivateLock("t1")
    \/ ActivateReturn("t1")

SpecDrivers == Init /\ [][NextDrivers]_vars

\* ------------------------------------------------------- mount resolution
PeerOf(c) == IF c = "c1" THEN "c2" ELSE "c1"

HostConfigs(c) ==
    {[Binds |-> b, VolumesFrom |-> v] : b \in BindLists, v \in VolumesFromLists(PeerOf(c))}

Started(S, c, hostConfig) ==
    [S EXCEPT !.starts = @ + 1,
              !.last = [c |-> c, Binds |-> hostConfig.Binds,
                        VolumesFrom |-> hostConfig.VolumesFrom]]

\* Daemon.setHostConfig(container, hostConfig) of a start request.
SetHostConfig(c, hostConfig, createOK) ==
    /\ mountState.gen = "M" /\ mountState.starts < MaxStarts
    /\ mountState' = Started(registerMountPoints(mountState, c, hostConfig, createOK),
                             c, hostConfig)
    /\ UNCHANGED <<world, plugins, threads, daemon, activation>>

\* Container.prepareVolumes() of a start request with the hostConfig set.
StartPrepareVolumes(c, hostConfig, findOK) ==
    /\ mountState.gen = "V" /\ mountState.starts < MaxStarts
    /\ LET mounts == plannedMounts(mountState, c, hostConfig).mounts
       IN  \E written \in IF findOK THEN {{}}
                          ELSE (SUBSET DOMAIN mounts) \ {DOMAIN mounts} :
              mountState' = Started(createVolumesFrom(mountState, c, hostConfig,
                                                      findOK, written),
                                    c, hostConfig)
    /\ UNCHANGED <<world, plugins, threads, daemon, activation>>

InitMounts ==
    /\ InitActivation
    /\ mountState \in InitialMounts
    /\ volumes = EmptyMap
    /\ vol = EmptyMap
    /\ meta = EmptyMap
    /\ dirs = {PathA, VfsRoot}
    /\ nextID = 1
    /\ plugins = EmptyMap
    /\ lock = NoThread
    /\ pc = [t \in Threads |-> "idle"]
    /\ last = NoCall
    /\ returned = EmptyMap
    /\ containers = [c \in ContainerIDs |-> NoContainer]
    /\ calls = [c \in ContainerIDs |-> NoCalls]

NextMounts ==
    \/ \E c \in ContainerIDs, ok \in BOOLEAN :
          \E hostConfig \in HostConfigs(c) : SetHostConfig(c, hostConfig, ok)
    \/ \E c \in ContainerIDs, ok \in BOOLEAN :
          \E hostConfig \in HostConfigs(c) : StartPrepareVolumes(c, hostConfig, ok)

SpecMounts == InitMounts /\ [][NextMounts]_vars

\* ----------------------------------------------------------- mount order
\* Container.setupMounts() with sortMounts: the list handed to the runtime.
SetupMounts ==
    /\ mountState.gen = "S"
    /\ \E o \in sortMounts(mountState.Destinations) :
          mountState' = [mountState EXCEPT !.Mounts = o, !.sorter = "sortMounts"]
    /\ UNCHANGED <<world, plugins, threads, daemon, activation>>

\* Container.setupMounts() with sortedVolumeMounts.
SetupSortedVolumeMounts ==
    /\ mountState.gen = "S"
    /\ \E o \in sortedVolumeMounts(mountState.Destinations) :
          mountState' = [mountState EXCEPT !.Mounts = o, !.sorter = "sortedVolumeMounts"]
    /\ UNCHANGED <<world, plugins, threads, daemon, activation>>

InitSort ==
    /\ InitActivation
    /\ mountState \in InitialSorts
    /\ volumes = EmptyMap
    /\ vol = EmptyMap
    /\ meta = EmptyMap
    /\ dirs = {PathA, VfsRoot}
    /\ nextID = 1
    /\ plugins = EmptyMap
    /\ lock = NoThread
    /\ pc = [t \in Threads |-> "idle"]
    /\ last = NoCall
    /\ returned = EmptyMap
    /\ containers = [c \in ContainerIDs |-> NoContainer]
    /\ calls = [c \in ContainerIDs |-> NoCalls]

NextSort ==
    \/ SetupMounts
    \/ SetupSortedVolumeMounts

SpecSort == InitSort /\ [][NextSort]_vars

\* ------------------------------------------------- volumes at creation
\* POST /containers/create for c1 with config.Volumes and a hostConfig.
DaemonCreate(c, Volumes, hostConfig, createOK) ==
    /\ mountState.gen = "C" /\ mountState.starts = 0
    /\ \E order \in Orders(Volumes) :
          mountState' =
              Started([daemonCreateVolumes(
                          [mountState EXCEPT !.Config[c] = {volumeDestination(e) : e \in Volumes},
                                             !.create = [Volumes |-> Volumes, calls |-> <<>>]],
                          c, order, hostConfig, createOK)
                       EXCEPT !.gen = "C"],
                      c, hostConfig)
    /\ UNCHANGED <<world, plugins, threads, daemon, activation>>

InitCreate ==
    /\ InitActivation
    /\ mountState \in InitialCreates
    /\ volumes = EmptyMap
    /\ vol = EmptyMap
    /\ meta = EmptyMap
    /\ dirs = {PathA, VfsRoot}
    /\ nextID = 1
    /\ plugins = EmptyMap
    /\ lock = NoThread
    /\ pc = [t \in Threads |-> "idle"]
    /\ last = NoCall
    /\ returned = EmptyMap
    /\ containers = [c \in ContainerIDs |-> NoContainer]
    /\ calls = [c \in ContainerIDs |-> NoCalls]

NextCreate ==
    \E Volumes \in ConfigVolumes, createOK \in BOOLEAN :
        \E hostConfig \in HostConfigs("c1") : DaemonCreate("c1", Volumes, hostConfig, createOK)

SpecCreate == InitCreate /\ [][NextCreate]_vars

\* --------------------------------------------- plugin volume lifecycle
Lifecycle(c) == mountState.lifecycle[c]

LifecycleStep(c, l) ==
    /\ mountState.gen = "L"
    /\ mountState' = [mountState EXCEPT !.lifecycle[c] = l, !.last.c = c]
    /\ UNCHANGED <<world, plugins, threads, daemon, activation>>

\* POST /containers/create with Volumes = {"/data"}.
LCreate(c, createOK, mountOK) ==
    /\ Lifecycle(c).phase = "none"
    /\ LifecycleStep(c, daemonCreate(Lifecycle(c), createOK, mountOK))

\* POST /containers/(id)/start.
LStart(c, mountOK) ==
    /\ Lifecycle(c).phase \in {"created", "stopped"}
    /\ Lifecycle(c).runs < MaxStarts
    /\ LifecycleStep(c, containerStart(Lifecycle(c), mountOK))

\* The container's process exits.
LStop(c) ==
    /\ Lifecycle(c).phase = "running"
    /\ LifecycleStep(c, containerCleanup(Lifecycle(c)))

\* DELETE /containers/(id), with or without v=1.
LContainerRm(c, RemoveVolume) ==
    /\ Lifecycle(c).phase \in {"created", "stopped"}
    /\ LifecycleStep(c, daemonContainerRm(Lifecycle(c), RemoveVolume))

\* The explicit deletion of the volumes of a removed container.
LDeleteVolumes(c) ==
    /\ Lifecycle(c).phase = "removed"
    /\ LifecycleStep(c, daemonDeleteVolumes(Lifecycle(c)))

InitLifecycle ==
    /\ InitActivation
    /\ mountState = InitialLifecycle
    /\ volumes = EmptyMap
    /\ vol = EmptyMap
    /\ meta = EmptyMap
    /\ dirs = {PathA, VfsRoot}
    /\ nextID = 1
    /\ plugins = EmptyMap
    /\ lock = NoThread
    /\ pc = [t \in Threads |-> "idle"]
    /\ last = NoCall
    /\ returned = EmptyMap
    /\ containers = [c \in ContainerIDs |-> NoContainer]
    /\ calls = [c \in ContainerIDs |-> NoCalls]

NextLifecycle ==
    \/ \E c \in ContainerIDs, createOK, mountOK \in BOOLEAN : LCreate(c, createOK, mountOK)
    \/ \E c \in ContainerIDs, mountOK \in BOOLEAN : LStart(c, mountOK)
    \/ \E c \in ContainerIDs : LStop(c)
    \/ \E c \in ContainerIDs, RemoveVolume \in BOOLEAN : LContainerRm(c, RemoveVolume)
    \/ \E c \in ContainerIDs : LDeleteVolumes(c)

SpecLifecycle == InitLifecycle /\ [][NextLifecycle]_vars

\* ================================================================== claims
NotFoundErrors == {"NotExist", "VolumeNotExist"}

\* Thread t completes the body of a repository method in this step.
FindOrCreateStep(t) == pc[t] = "FindOrCreateVolume" /\ lock = t /\ pc'[t] = "idle"

\* The entries of the map whose path is canonically `key`.
Entries(W, key) == {p \in DOMAIN W.volumes : Canonical(p, W.dirs) = key}

C3_RemoveOnlyUnreferenced ==
    \A r \in last.removeCalls : r.explicit /\ r.refs \ {last.c} = {}

\* C4 as stated: Delete of a volume of the repository succeeds exactly when no
\* container references it, and fails with the in-use error otherwise.
C4_DeleteIffNoRefs ==
    last.op = "Delete" /\ last.known =>
        /\ last.err = NoError <=> last.refs = {}
        /\ last.refs # {} => last.err = "InUse" /\ last.ids = last.refs

\* C4, amended: Delete of a volume of the repository fails with the in-use
\* error, listing the containers, exactly when a container references it; with
\* no reference it succeeds unless removing the metadata directory or the graph
\* driver's Remove fails.
C4_InUseIffRefs ==
    last.op = "Delete" /\ last.known =>
        /\ last.err = "InUse" <=> last.refs # {}
        /\ last.err = "InUse" => last.ids = last.refs
        /\ last.err = NoError => last.refs = {}
        /\ last.refs = {} => last.err \in {NoError, "RemoveAllError", "DriverRemoveError"}

\* A Delete was refused because container c1 references the volume.
C4_Witness ==
    /\ last.op = "Delete" /\ last.known
    /\ last.err = "InUse" /\ last.ids = {"c1"}

\* The volume container c mounts, if the repository has it.
volumeOf(c) == containerVolumes(World, containers[c])

RECURSIVE SumOver(_, _)
SumOver(S, f) ==
    IF S = {} THEN 0
    ELSE LET x == CHOOSE y \in S : TRUE IN f[x] + SumOver(S \ {x}, f)

\* C5 as stated: a volume's refcount is the multiset difference of the
\* AddContainer and RemoveContainer calls made on it, clamped at zero.
C5_MultisetDifference ==
    \A id \in DOMAIN vol :
        Cardinality(Containers(World, id)) =
            SumOver({c \in ContainerIDs : id \in volumeOf(c)},
                    [c \in ContainerIDs |->
                        IF calls[c].adds > calls[c].removes
                        THEN calls[c].adds - calls[c].removes ELSE 0])

\* C5, amended: a volume's containers are a set -- the ids whose most recent
\* call on it was AddContainer -- and its refcount is the size of that set:
\* adding an id twice counts once, one RemoveContainer drops it, and removing
\* an id that is not there changes nothing.
C5_SetOfLastAdded ==
    \A id \in DOMAIN vol :
        Containers(World, id) =
            {c \in ContainerIDs : id \in volumeOf(c) /\ calls[c].last = "add"}

\* A container added itself twice and removed itself once: no reference is left.
C5_Witness ==
    \E c \in ContainerIDs :
        /\ calls[c].adds = 2 /\ calls[c].removes = 1 /\ calls[c].last = "remove"
        /\ volumeOf(c) # {}
        /\ \A id \in volumeOf(c) : c \notin Containers(World, id)

\* C6 as stated: a removed container is in no volume's set of containers.
C6_RemovedContainerHoldsNoRef ==
    \A c \in ContainerIDs :
        containers[c].state = "removed" =>
            \A id \in DOMAIN vol : c \notin Containers(World, id)

\* C7 as stated: a volume is in the map iff its metadata directory exists.
C7_MapIffMetadata ==
    \A n \in 1..MaxVolumes :
        GenerateRandomID(n) \in Live(World) <=> GenerateRandomID(n) \in DOMAIN meta

\* C8 as stated: of two overlapping Deletes of one volume at most one succeeds,
\* the other fails with not-found or in-use, and the graph driver's Remove is
\* called at most once.
C8_OtherFailsNotFoundOrInUse ==
    last.op = "Delete" /\ last.peer.err # "none" /\ (last.known \/ last.peer.id # NoVolume) =>
        /\ ~(last.err = NoError /\ last.peer.err = NoError)
        /\ last.err = NoError => last.peer.err \in NotFoundErrors \cup {"InUse"}
        /\ last.peer.err = NoError => last.err \in NotFoundErrors \cup {"InUse"}
        /\ last.peer.calls + Cardinality(last.removeCalls) <= 1

\* C8, amended: of two overlapping Deletes of one volume at most one succeeds;
\* once one has succeeded the other fails with not-found; and the graph driver's
\* Remove is called a second time only after its first call failed.
C8_AtMostOneSucceeds ==
    last.op = "Delete" /\ last.peer.err # "none" /\ (last.known \/ last.peer.id # NoVolume) =>
        /\ ~(last.err = NoError /\ last.peer.err = NoError)
        /\ last.peer.err = NoError => last.err \in NotFoundErrors
        /\ last.peer.calls + Cardinality(last.removeCalls) > 1 =>
              last.peer.err = "DriverRemoveError"

\* The second of two overlapping Deletes found the volume gone.
C8_Witness ==
    /\ last.op = "Delete" /\ last.peer.err = NoError /\ last.peer.id # NoVolume
    /\ last.err \in NotFoundErrors /\ last.peer.calls = 1

\* C9: when Delete calls the graph driver's Remove (a volume that is no bind
\* mount, without references), a not-exist answer counts as success -- no error,
\* the map entry gone -- and any other error is returned.
C9_NotExistIsSuccess ==
    last.op = "Delete" /\ last.remove # "none" =>
        /\ last.refs = {} /\ last.known
        /\ last.remove = "notExist" =>
              last.err = NoError /\ last.id \notin Live(World)
        /\ last.remove = "err" =>
              last.err = "DriverRemoveError" /\ last.id \in Live(World)

\* A Delete succeeded although the graph driver answered not-exist.
C9_Witness ==
    /\ last.op = "Delete" /\ last.remove = "notExist"
    /\ last.err = NoError /\ last.known /\ last.id \notin Live(World)

\* C10 as stated: every path the repository knows before a restart is, after
\* restore, the path of an equal volume.
C10_RestartRoundTrip ==
    [][last'.op = "Restart" /\ last.op # "Restart" =>
         \A p \in DOMAIN volumes :
            /\ Get(World, p)' # NoVolume
            /\ ToDisk(vol'[Get(World, p)']) = ToDisk(vol[volumes[p]])]_vars

ActivationMutex(op) == IF op \in {"Get", "Load"} THEN "activePlugins" ELSE "storage"

\* Thread t sends a Plugin.Activate request in this step.
SendsActivate(t) == ppc[t].pos # "rpc" /\ ppc'[t].pos = "rpc"

\* A call through get whose Plugin.Activate request load took for a success.
LoadSucceeded(call) ==
    /\ call.op \in {"GetImp", "Lookup"}
    /\ call.kind # "none"
    /\ call.err \in {NoError, "ErrNotImplements"}

\* The plugin is in the map of active plugins of the package `op` belongs to
\* (RemotePlugin keeps none).
IsActive(op, name) ==
    IF op \in {"GetImp", "Lookup"} THEN name \in DOMAIN storage
    ELSE IF op \in {"Get", "Load"} THEN name \in activePlugins
    ELSE FALSE

\* C12 as stated: however the calls that activate one plugin name overlap,
\* exactly one Plugin.Activate request is sent to that plugin.
C12_ExactlyOneActivateRPC ==
    \A n \in PluginNames : rpcs[n] <= 1

\* C12, amended: the Plugin.Activate requests for a name are sent one at a
\* time, under the mutex of the map of active plugins, and none is sent for a
\* name that is in that map: of overlapping get calls for one name the one
\* that follows a successful load sends none and returns the stored plugin,
\* while each call that follows a failed attempt sends its own request.
C12_OneActivateAtATime ==
    /\ [](\A t \in Threads :
            ppc[t].pos = "rpc" => mu[ActivationMutex(ppc[t].op)] = t)
    /\ [](LoadSucceeded(plast.peer) /\ plast.op \in {"GetImp", "Lookup"}
          /\ plast.name = plast.peer.name
            => plast.kind = "none" /\ (plast.op = "GetImp" => plast.cached))
    /\ [][\A t \in Threads :
            SendsActivate(t) =>
               IF ppc[t].op \in {"Get", "Load"}
               THEN ppc[t].name \notin activePlugins
               ELSE ppc[t].name \notin DOMAIN storage]_vars

\* Of two overlapping Get(name, imp) calls the second found the plugin the
\* first had loaded with one request, and sent none.
C12_Witness ==
    /\ plast.op = "GetImp" /\ plast.peer.op = "GetImp"
    /\ plast.peer.kind = "ok" /\ plast.peer.err = NoError
    /\ plast.kind = "none" /\ plast.cached /\ plast.err = NoError
    /\ rpcs["p"] = 1

\* C13 as stated: when threads call Get(name) of plugins.go at once for a
\* plugin that is not active and the plugin answers the activation with
\* success, every caller returns the active plugin without error.
C13_ConcurrentGetReturnsPlugin ==
    plast.op = "Get" /\ (plast.kind = "ok" \/ plast.peer.kind = "ok") =>
        plast.err = NoError /\ IsActive(plast.op, plast.name)

\* C14 as stated: after a failed activation (dial error, a status other than
\* 200, a manifest that cannot be decoded) the plugin is in no map of active
\* plugins, no handler has run for it, and the call returned an error, so that
\* the next Get tries again.
C14_FailedActivationNotCached ==
    plast.op \in {"Get", "GetImp", "Lookup"} /\ plast.kind \in FailedAnswers =>
        /\ plast.err # NoError
        /\ ~IsActive(plast.op, plast.name)
        /\ plast.handled = 0

\* The capabilities of a manifest that have a handler.
RECURSIVE Handled(_, _)
Handled(implements, i) ==
    IF i > Len(implements) THEN 0
    ELSE (IF implements[i] \in extpointHandlers THEN 1 ELSE 0)
         + Handled(implements, i + 1)

\* C15 as stated: an activation the plugin answers with a manifest succeeds,
\* and every capability of the manifest that has a handler had it invoked once.
C15_HandlersInvokedOnce ==
    plast.op = "Get" /\ plast.kind = "ok" =>
        /\ plast.err = NoError
        /\ plast.handled = Handled(plast.Implements, 1)

\* C16 as stated: an activation answered with a manifest that lists no
\* extension points returns an error, and the plugin is not active.
C16_EmptyManifestIsError ==
    /\ plast.op \in {"RemotePlugin.Activate", "Get", "GetImp"}
    /\ plast.kind = "ok" /\ plast.Implements = <<>>
    => /\ plast.err \notin {NoError, "panic"}
       /\ ~IsActive(plast.op, plast.name)

\* C17 as stated: when discovery succeeds Load returns no error, having tried
\* every plugin, and every plugin that answered its activation is active.
C17_LoadContinues ==
    plast.op = "Load" /\ plast.err # "DiscoveryError" =>
        /\ plast.err = NoError
        /\ plast.ok \subseteq activePlugins

\* Thread t locks mutex l in this step.
Acquires(t, l) == mu[l] # t /\ mu'[l] = t

\* The mutex thread t is waiting for.
WaitsFor(t) == Wants(ppc[t].op, ppc[t].pos)

C19_DriverCalledUnlocked ==
    [][last'.op \in {"FindOrCreateVolume", "Delete"}
       /\ (last'.drvCreated # {} \/ last'.removeCalls # {})
         => lock = NoThread]_vars

\* C20 as stated: the mutex of the driver extension point is not held by a
\* thread whose Plugin.Activate request is in progress.
C20_ExtpointUnlockedDuringRPC ==
    \A t \in Threads : ppc[t].pos = "rpc" => mu.drivers # t

\* The sequence `seq` has the element x.
Has(seq, x) == \E i \in 1..Len(seq) : seq[i] = x

\* C21: Register(driver, name) adds the entry and returns true exactly when
\* the name is not empty and not registered; otherwise it returns false and
\* the map stays as it was.  No Register step changes or removes an entry the
\* map had, so a registration is never replaced.
C21_RegisterIffNew ==
    [][\A t \in Threads, d \in Drivers, n \in RegisterNames :
         DoRegister(t, d, n) =>
            LET fresh == n # "" /\ n \notin DOMAIN extensions
            IN  /\ plast'.ret = "true" <=> fresh
                /\ fresh => /\ DOMAIN extensions' = DOMAIN extensions \cup {n}
                            /\ extensions'[n] = d
                /\ ~fresh => extensions' = extensions
                /\ \A m \in DOMAIN extensions :
                      m \in DOMAIN extensions' /\ extensions'[m] = extensions[m]]_vars

\* A Register of a name that has a driver was refused and the driver kept.
C21_Witness ==
    /\ plast.op = "Register" /\ plast.ret = "false"
    /\ plast.name \in DOMAIN extensions
    /\ extensions[plast.name] # plast.arg

C23_LocalAlwaysRegistered ==
    "local" \in DOMAIN extensions /\ extensions["local"] = LocalDriver

\* The destinations container c has mounts at, and the host path and the
\* writability of the mount at destination d.
Mounts(S, c) ==
    IF S.gen \in {"M", "C"} THEN DOMAIN S.MountPoints[c] ELSE DOMAIN S.Volumes[c]

Resolved(S, c, d) ==
    IF S.gen \in {"M", "C"}
    THEN [source |-> Source(S.heap[S.MountPoints[c][d]]),
          RW |-> S.heap[S.MountPoints[c][d]].RW]
    ELSE [source |-> S.Volumes[c][d].path, RW |-> S.Volumes[c][d].rw]

\* The mount points recorded for container c, with their contents.
Recorded(S, c) ==
    IF S.gen \in {"M", "C"}
    THEN [d \in DOMAIN S.MountPoints[c] |-> S.heap[S.MountPoints[c][d]]]
    ELSE S.Volumes[c]

\* The peers whose volumes container c has applied already.
Applied(S, c) == IF S.gen = "V" THEN S.AppliedVolumesFrom[c] ELSE {}

\* A bind of two or three parts with an absolute source.
HostBind(b) == Len(b) \in {2, 3} /\ IsAbs(b[1])

\* From S to T: a start that gave a bind and a volumes-from entry for one
\* destination left the bind's source mounted there.
BindOverwritesPeer(S, T) ==
    T.err = NoError =>
        \A i \in 1..Len(T.last.Binds), j \in 1..Len(T.last.VolumesFrom) :
            LET b == T.last.Binds[i]
                p == parseVolumesFrom(T.last.VolumesFrom[j])
            IN  HostBind(b) /\ Clean(b[2]) \in Mounts(S, p.id) =>
                   /\ Clean(b[2]) \in Mounts(T, T.last.c)
                   /\ Resolved(T, T.last.c, Clean(b[2])).source = Clean(b[1])

\* C24 as stated: when Binds and VolumesFrom share a destination, the mount
\* resolved there is the one of Binds.
C24_BindOverwritesPeer ==
    [][BindOverwritesPeer(mountState, mountState')]_vars

\* From S to T: a container created with the volume d and started with a
\* bind for d and, for the first time, the volumes of a peer that mounts d,
\* has the peer's host path at d.
PeerOverwritesBind(S, T) ==
    T.err = NoError =>
        \A i \in 1..Len(T.last.Binds), j \in 1..Len(T.last.VolumesFrom) :
            LET b == T.last.Binds[i]
                p == parseVolumesFrom(T.last.VolumesFrom[j])
                d == Clean(b[2])
            IN  /\ HostBind(b) /\ d \in S.Config[T.last.c]
                /\ d \in Mounts(S, p.id) /\ p.id \notin Applied(S, T.last.c)
                => /\ d \in Mounts(T, T.last.c)
                   /\ Resolved(T, T.last.c, d).source = Resolved(T, p.id, d).source

\* C25 as stated: volumes-from has priority over binds.
C25_VolumesFromHasPriority ==
    [][PeerOverwritesBind(mountState, mountState')]_vars

\* Two binds of the list have the same cleaned destination.
DuplicateBinds(Binds) ==
    \E i \in 1..Len(Binds), j \in 1..Len(Binds) :
        /\ i < j /\ HostBind(Binds[i]) /\ HostBind(Binds[j])
        /\ Clean(Binds[i][2]) = Clean(Binds[j][2])

\* C26 as stated: a start whose Binds name one destination twice fails -- with
\* the duplicate-bind error when nothing else is wrong with the request -- and
\* the container's recorded mount points are what they were.
C26_DuplicateBindFails ==
    [][mountState'.starts > mountState.starts /\ DuplicateBinds(mountState'.last.Binds)
       => /\ mountState'.err # NoError
          /\ mountState'.last.VolumesFrom = <<>> => mountState'.err = "DuplicateBind"
          /\ Recorded(mountState', mountState'.last.c)
                = Recorded(mountState, mountState'.last.c)]_vars

\* From S to T: a start with one volumes-from entry and no binds, the peer
\* not applied before: each mount of the peer is inherited, writable exactly
\* when it is writable in the peer and the mode is rw.
InheritsWritable(S, T) ==
    /\ T.err = NoError /\ T.last.Binds = <<>> /\ Len(T.last.VolumesFrom) = 1
    /\ parseVolumesFrom(T.last.VolumesFrom[1]).id \notin Applied(S, T.last.c)
    => LET p == parseVolumesFrom(T.last.VolumesFrom[1])
       IN  \A d \in Mounts(S, p.id) :
              /\ d \in Mounts(T, T.last.c)
              /\ Resolved(T, T.last.c, d).RW
                    <=> (Resolved(S, p.id, d).RW /\ p.mode = "rw")

\* C27 as stated: an inherited mount is writable iff the peer's mount is
\* writable and the mode is rw.
C27_InheritedWritable ==
    [][InheritsWritable(mountState, mountState')]_vars

\* C28 as stated: a start succeeds only if each of its binds has two parts, or
\* three parts the third of which is ro or rw.
C28_BindSpecValid ==
    mountState.starts > 0 /\ mountState.err = NoError =>
        \A i \in 1..Len(mountState.last.Binds) :
            LET b == mountState.last.Binds[i]
            IN  Len(b) = 2 \/ (Len(b) = 3 /\ validMountMode(b[3]))

\* C29 as stated: every recorded mount point has an absolute, cleaned
\* destination (the destinations of one container are the keys of a map, hence
\* distinct).
C29_DestinationsAbsolute ==
    mountState.gen # "none" =>
        \A c \in ContainerIDs : \A d \in Mounts(mountState, c) :
            IsAbs(d) /\ Clean(d) = d

\* Path a is a strict ancestor directory of path b.
StrictAncestor(a, b) == Len(a) < Len(b) /\ SubSeq(b, 1, Len(a)) = a

\* The number of path components of a destination: none for "/".
Components(p) == Len(p) - 1

\* C30 as stated: the mounts handed to the runtime are in ascending order of
\* the number of path components of their destinations, and a destination
\* that is a strict ancestor of another one, "/" included, comes before it.
C30_ParentsBeforeChildren ==
    \A i, j \in 1..Len(mountState.Mounts) :
        /\ i < j => Components(mountState.Mounts[i]) <= Components(mountState.Mounts[j])
        /\ StrictAncestor(mountState.Mounts[i], mountState.Mounts[j]) => i < j

\* From S to T: a start without volumes-from left, at every destination of
\* Config.Volumes that a bind names, the bind's host path.
BindReplacesVolume(S, T) ==
    T.err = NoError /\ T.last.VolumesFrom = <<>> =>
        \A i \in 1..Len(T.last.Binds) :
            LET b == T.last.Binds[i]
                d == Clean(b[2])
            IN  HostBind(b) /\ d \in S.Config[T.last.c] =>
                   /\ d \in Mounts(T, T.last.c)
                   /\ Resolved(T, T.last.c, d).source = Clean(b[1])

C34_PeerMountPointsUnchanged ==
    [][mountState'.starts > mountState.starts
       => \A i \in 1..Len(mountState'.last.VolumesFrom) :
             LET p == parseVolumesFrom(mountState'.last.VolumesFrom[i]).id
             IN  p # mountState'.last.c
                 => Recorded(mountState', p) = Recorded(mountState, p)]_vars

\* C36 as stated: every recorded mount point has a volume or a non-empty
\* literal host path, so that MountPoint.Setup finds one of the two.
C36_MountPointHasSource ==
    mountState.gen = "M" =>
        \A c \in DOMAIN mountState.MountPoints :
            \A d \in DOMAIN mountState.MountPoints[c] :
                LET m == mountState.heap[mountState.MountPoints[c][d]]
                IN  m.Volume # NilVolume \/ Len(m.source) > 0

\* The destination-to-source mapping of container c with the writable flags.
Mapping(S, c) == [d \in Mounts(S, c) |-> Resolved(S, c, d)]

\* C37 as stated: a second successful start of a container with the Binds
\* and VolumesFrom of its previous successful start yields the mounts of
\* that start.
C37_ResolutionStable ==
    [][/\ mountState'.starts > mountState.starts
       /\ mountState.starts > 0
       /\ mountState'.last = mountState.last
       /\ mountState.err = NoError /\ mountState'.err = NoError
       => Mapping(mountState', mountState'.last.c)
             = Mapping(mountState, mountState.last.c)]_vars

\* C38 as stated: a start that returns an error leaves the container's
\* recorded mount points as they were.
C38_FailedResolutionChangesNothing ==
    [][mountState'.starts > mountState.starts /\ mountState'.err # NoError
       => Recorded(mountState', mountState'.last.c)
             = Recorded(mountState, mountState'.last.c)]_vars

\* The requests the step sends for the volume of container c.
Sent(c, method) ==
    mountState'.lifecycle[c].rpcs[method] - mountState.lifecycle[c].rpcs[method]

\* The phase of container c changes from one of `from` to one of `to`.
Phase(c, from, to) ==
    /\ mountState.lifecycle[c].phase \in from
    /\ mountState'.lifecycle[c].phase \in to

C39_MountsBalanced ==
    mountState.gen = "L" =>
        \A c \in ContainerIDs :
            mountState.lifecycle[c].phase \in {"removed", "deleted"}
            => /\ mountState.lifecycle[c].mounted = 0
               /\ mountState.lifecycle[c].rpcs["Unmount"] > 0
                     \/ mountState.lifecycle[c].rpcs["Mount"] = 0

\* C33 as stated: whatever answer with a status other than 200 the plugin
\* gives to a request that is on its way, Client.Call returns an error for it
\* (and decodes nothing into the caller's value).
C33_NonOKStatusIsError ==
    \A t \in Threads :
        ppc[t].pos = "rpc" =>
            \A answer \in Answers :
                answer.kind \in {"status", "statusUnread"} =>
                    /\ ClientCall(answer, NewManifest).err # NoError
                    /\ ClientCall(answer, NewManifest).ret = NewManifest

\* C40 as stated: a RegisterPlugin that returns an error leaves the plugin
\* repository as it was.
C40_RegisterPluginAllOrNothing ==
    [][last'.op = "RegisterPlugin" /\ last'.err # NoError => plugins' = plugins]_vars

\* In a creation from S to T: destination d has a mount point from the
\* hostConfig, a bind for d or a mount of a peer named in VolumesFrom.
Covered(S, T, d) ==
    \/ \E i \in 1..Len(T.last.Binds) :
          Len(T.last.Binds[i]) \in {2, 3} /\ Clean(T.last.Binds[i][2]) = d
    \/ \E i \in 1..Len(T.last.VolumesFrom) :
          d \in Mounts(S, parseVolumesFrom(T.last.VolumesFrom[i]).id)

\* The createVolume calls the creation made for destination d.
CreatedFor(T, d) == {i \in 1..Len(T.create.calls) : T.create.calls[i].destination = d}

\* In a successful creation from S to T with the volume names `names(d)`
\* allowed at destination d: a covered destination of config.Volumes gets no
\* volume and keeps the mount point of the hostConfig; every other one gets
\* exactly one volume of the container's driver ("local" for the empty name),
\* recorded as a writable mount point.
CreateVolumesAs(S, T, names(_)) ==
    LET c == T.last.c
        R == registerMountPoints(S, c, [Binds |-> T.last.Binds,
                                       VolumesFrom |-> T.last.VolumesFrom], TRUE)
    IN  \A d \in {volumeDestination(e) : e \in T.create.Volumes} :
            IF Covered(S, T, d)
            THEN /\ CreatedFor(T, d) = {}
                 /\ Recorded(T, c)[d] = Recorded(R, c)[d]
            ELSE /\ Cardinality(CreatedFor(T, d)) = 1
                 /\ \A i \in CreatedFor(T, d) :
                       LET v == T.create.calls[i].volume
                       IN  /\ v.name \in names(d)
                           /\ v.driver = (IF S.VolumeDriver[c] = "" THEN "local"
                                          ELSE S.VolumeDriver[c])
                           /\ Recorded(T, c)[d].Volume = v
                           /\ Recorded(T, c)[d].RW
                           /\ Recorded(T, c)[d].Destination = d

Anonymous(T, d) == {GeneratedID(T.last.c, d)}
NamedOrAnonymous(T, d) ==
    {volumeName(T.last.c, e) : e \in {x \in T.create.Volumes : volumeDestination(x) = d}}

\* C35 as stated: at create, a destination of config.Volumes that has a
\* mount point from volumes-from or binds is skipped, and every other one
\* gets exactly one new anonymous volume of the container's driver, recorded
\* as a writable mount point.
C35_AnonymousVolumePerDestination ==
    [][mountState'.starts > mountState.starts /\ mountState'.err = NoError
       => LET T == mountState'
              names(d) == Anonymous(T, d)
          IN  CreateVolumesAs(mountState, T, names)]_vars

\* C35, amended: the volume has the name the entry gives ("name:destination")
\* and a generated name for an entry that is a destination only.
C35_VolumePerDestination ==
    [][mountState'.starts > mountState.starts /\ mountState'.err = NoError
       => LET T == mountState'
              names(d) == NamedOrAnonymous(T, d)
          IN  CreateVolumesAs(mountState, T, names)]_vars

C35_Witness ==
    /\ mountState.gen = "C" /\ mountState.starts = 1 /\ mountState.err = NoError
    /\ mountState.create.Volumes = {<<PathA>>, <<PathB>>}
    /\ mountState.last.VolumesFrom = << <<"c2">> >> /\ mountState.last.Binds = <<>>
    /\ Len(mountState.create.calls) = 1
    /\ mountState.create.calls[1].destination = PathB
    /\ mountState.MountPoints["c1"][PathA] = mountState.MountPoints["c2"][PathA]

====
